---------------------------- MODULE Spec2Model ----------------------------
(***************************************************************************)
(* A model of mSTL's red-black tree engine (rb_tree over tree_base).       *)
(*                                                                         *)
(* Nodes live in a heap addressed by small integers; the three link        *)
(* relations and the colour tag are fields of the heap records.  Every     *)
(* public operation is one action that runs the whole member function,     *)
(* fix-up included.                                                        *)
(***************************************************************************)
EXTENDS Integers, Naturals, Sequences, FiniteSets, TLC

\* ------------------------------------------------------------------ bounds
MaxKey == 5                 \* keys are 1..MaxKey

Key == 1..MaxKey

\* the keys of the longer scenario (SpecDeep) are 1..DeepKey
DeepKey == 7

\* node addresses: one block of node storage per possible element
Node == 1..(IF MaxKey > DeepKey THEN MaxKey ELSE DeepKey)

\* nullptr, and the address of erase_node's stack object leafSentinel
NIL == 0
SENT == -1

RBRed == "RBRed"
RBBk == "RBBk"

\* What a build does with an access to a destroyed node (undefined
\* behaviour): the freed block still holds its old contents, or the access
\* traps and the process dies.
UBOutcome == {"stale", "trap"}

VARIABLES
    heap,       \* node storage: address -> [mp_Left, mp_Right, mp_Parent, m_Color, m_Val]
    live,       \* addresses handed out by DoAllocateNode and not yet destroyed
    mp_Root,    \* tree_base::mp_Root
    m_Size,     \* tree_base::m_Size
    abs,        \* ghost: the abstract set of keys inserted and not erased
    last,       \* the last public call: its name, argument (for clear: the
                \* number of nodes it destroyed) and return value, whether
                \* it ran the erase fix-up from the sentinel, the colour of
                \* the node an erase spliced out, the branch of
                \* erase_node it took, and the number of rotations the
                \* call made
    fault,      \* "ok", or why the process died inside the last call
    other       \* a second rb_tree on the same allocator: its mp_Root and
                \* m_Size, and the ghost set of its keys

vars == <<heap, live, mp_Root, m_Size, abs, last, fault, other>>

\* ------------------------------------------------------------ node records
\* rb_node_base{} followed by the member initialisers
FreshNode == [mp_Left |-> NIL, mp_Right |-> NIL, mp_Parent |-> NIL,
              m_Color |-> RBRed, m_Val |-> 0]

SetLeft(h, n, v) == [h EXCEPT ![n].mp_Left = v]
SetRight(h, n, v) == [h EXCEPT ![n].mp_Right = v]
SetParent(h, n, v) == [h EXCEPT ![n].mp_Parent = v]

color_of(h, n) == IF n = NIL THEN RBBk ELSE h[n].m_Color

set_color(h, n, c) == IF n # NIL THEN [h EXCEPT ![n].m_Color = c] ELSE h

\* std::less on the stored values (identity key extraction)
m_Comp(a, b) == a < b

\* ------------------------------------------------- structural primitives
\* p's child pointer that designated x now designates y (p may be absent)
SetChildOf(h, p, x, y) ==
    IF p = NIL THEN h
    ELSE IF h[p].mp_Left = x THEN SetLeft(h, p, y)
    ELSE SetRight(h, p, y)

\* b's parent pointer, if b is present
SetParentIf(h, b, p) == IF b # NIL THEN SetParent(h, b, p) ELSE h

\* Rotation: the pivot x and its child y swap places, y's inner subtree b
\* moves under x, and the original parent p's child pointer follows.
RotateLeftAt(h, x, y, b, p) ==
    SetParent(SetLeft(SetChildOf(SetParent(SetParentIf(SetRight(h, x, b), b, x),
                                           y, p),
                                 p, x, y),
                      y, x),
              x, y)

RotateRightAt(h, x, y, b, p) ==
    SetParent(SetRight(SetChildOf(SetParent(SetParentIf(SetLeft(h, x, b), b, x),
                                            y, p),
                                  p, x, y),
                       y, x),
              x, y)

TreeRotateLeft(h, x) ==
    RotateLeftAt(h, x, h[x].mp_Right, h[h[x].mp_Right].mp_Left, h[x].mp_Parent)

TreeRotateRight(h, x) ==
    RotateRightAt(h, x, h[x].mp_Left, h[h[x].mp_Left].mp_Right, h[x].mp_Parent)

\* A rotation needs a present pivot with the child it lifts.
CanRotateLeft(h, x) == x # NIL /\ h[x].mp_Right # NIL
CanRotateRight(h, x) == x # NIL /\ h[x].mp_Left # NIL

\* Subtree replacement on the pair t = (h, root): a's parent p now points at
\* b, b's parent pointer at p, and the root reference follows when a was the
\* root.
TransplantAt(t, a, b, p) ==
    [t EXCEPT !.h = SetParentIf(SetChildOf(t.h, p, a, b), b, p),
              !.root = IF p = NIL THEN b ELSE t.root]

TreeTransplant(t, a, b) == TransplantAt(t, a, b, t.h[a].mp_Parent)

\* -------------------------------------------------------------- traversal
RECURSIVE TreeMin(_, _)
TreeMin(h, n) ==
    IF n # NIL /\ h[n].mp_Left # NIL THEN TreeMin(h, h[n].mp_Left) ELSE n

RECURSIVE TreeMax(_, _)
TreeMax(h, n) ==
    IF n # NIL /\ h[n].mp_Right # NIL THEN TreeMax(h, h[n].mp_Right) ELSE n

RECURSIVE SuccClimb(_, _, _)
SuccClimb(h, n, p) ==
    IF p # NIL /\ n = h[p].mp_Right THEN SuccClimb(h, p, h[p].mp_Parent) ELSE p

TreeSuccessor(h, n) ==
    IF n = NIL THEN NIL
    ELSE IF h[n].mp_Right # NIL THEN TreeMin(h, h[n].mp_Right)
    ELSE SuccClimb(h, n, h[n].mp_Parent)

\* the climb of TreePredecessor cut short after the parent
PredClimb_NoClimb(h, n, p) == p

RECURSIVE PredClimb(_, _, _)
PredClimb(h, n, p) ==
    IF p # NIL /\ n = h[p].mp_Left THEN PredClimb(h, p, h[p].mp_Parent) ELSE p

\* TreePredecessor that takes the absent node for the position past the
\* maximum and steps back to the greatest node, as a std::set iterator does
TreePredecessor_EndToMax(h, n) ==
    IF n = NIL
    THEN IF \E r \in DOMAIN h : h[r].m_Val # 0 /\ h[r].mp_Parent = NIL
         THEN TreeMax(h, CHOOSE r \in DOMAIN h : h[r].m_Val # 0 /\ h[r].mp_Parent = NIL)
         ELSE NIL
    ELSE IF h[n].mp_Left # NIL THEN TreeMax(h, h[n].mp_Left)
    ELSE PredClimb(h, n, h[n].mp_Parent)

TreePredecessor(h, n) ==
    IF n = NIL THEN NIL
    ELSE IF h[n].mp_Left # NIL THEN TreeMax(h, h[n].mp_Left)
    ELSE PredClimb(h, n, h[n].mp_Parent)

\* TreeFind that gives up where line 144 descends to the right
RECURSIVE TreeFind_NeverRight(_, _, _)
TreeFind_NeverRight(h, root, key) ==
    IF root = NIL THEN NIL
    ELSE IF m_Comp(key, h[root].m_Val) THEN TreeFind_NeverRight(h, h[root].mp_Left, key)
    ELSE IF m_Comp(h[root].m_Val, key) THEN NIL
    ELSE root

RECURSIVE TreeFind(_, _, _)
TreeFind(h, root, key) ==
    IF root = NIL THEN NIL
    ELSE IF m_Comp(key, h[root].m_Val) THEN TreeFind(h, h[root].mp_Left, key)
    ELSE IF m_Comp(h[root].m_Val, key) THEN TreeFind(h, h[root].mp_Right, key)
    ELSE root

\* tree_iterator::operator++ and operator-- on an iterator whose curr is n
Increment(h, n) == TreeSuccessor(h, n)

Decrement(h, n) == TreePredecessor(h, n)

\* tree_base::begin and tree_base::end
begin(h, root) == TreeMin(h, root)

end == NIL

\* tree_base::find and tree_base::contains on the tree (h, root); the end
\* iterator holds NIL
find(h, root, key) == TreeFind(h, root, key)

contains(h, root, key) == TreeFind(h, root, key) # NIL

\* TreeLowerBound with its upper-bound test (line 189) in place of line 166
RECURSIVE LowerBoundLoop_Strict(_, _, _, _)
LowerBoundLoop_Strict(h, root, key, res) ==
    IF root = NIL THEN res
    ELSE IF m_Comp(key, h[root].m_Val)
         THEN LowerBoundLoop_Strict(h, h[root].mp_Left, key, root)
    ELSE LowerBoundLoop_Strict(h, h[root].mp_Right, key, res)

\* The loop of TreeLowerBound: res is the last node met that is not less
\* than key
RECURSIVE LowerBoundLoop(_, _, _, _)
LowerBoundLoop(h, root, key, res) ==
    IF root = NIL THEN res
    ELSE IF ~m_Comp(h[root].m_Val, key)
         THEN LowerBoundLoop(h, h[root].mp_Left, key, root)
    ELSE LowerBoundLoop(h, h[root].mp_Right, key, res)

TreeLowerBound(h, root, key) == LowerBoundLoop(h, root, key, NIL)

\* The loop of TreeUpperBound: res is the last node met that is greater
\* than key
RECURSIVE UpperBoundLoop(_, _, _, _)
UpperBoundLoop(h, root, key, res) ==
    IF root = NIL THEN res
    ELSE IF m_Comp(key, h[root].m_Val)
         THEN UpperBoundLoop(h, h[root].mp_Left, key, root)
    ELSE UpperBoundLoop(h, h[root].mp_Right, key, res)

TreeUpperBound(h, root, key) == UpperBoundLoop(h, root, key, NIL)

lower_bound(h, root, key) == TreeLowerBound(h, root, key)

upper_bound(h, root, key) == TreeUpperBound(h, root, key)

equal_range(h, root, key) == <<lower_bound(h, root, key), upper_bound(h, root, key)>>


\* ---------------------------------------------------------------- insert
\* The descent loop of insert_impl: the node that already holds v (dup), or
\* the last node visited (parent).
RECURSIVE InsertDescend(_, _, _, _)
InsertDescend(h, current, parent, v) ==
    IF current = NIL THEN [dup |-> NIL, parent |-> parent]
    ELSE IF m_Comp(v, h[current].m_Val)
         THEN InsertDescend(h, h[current].mp_Left, current, v)
    ELSE IF m_Comp(h[current].m_Val, v)
         THEN InsertDescend(h, h[current].mp_Right, current, v)
    ELSE [dup |-> current, parent |-> parent]

\* DoAllocateNode: allocate(1) may return any unused block, and which one it
\* returns never matters to the tree.  Blocks are numbered so that the block
\* handed out for value v is block v: trees that differ only by a permutation
\* of addresses are one state.
DoAllocateNode(lv, v) == CHOOSE n \in Node \ lv : n = v

create_node(h, n, v, parent) ==
    [h EXCEPT ![n] = [mp_Left |-> NIL, mp_Right |-> NIL, mp_Parent |-> parent,
                      m_Color |-> RBRed, m_Val |-> v]]

\* t with a null dereference recorded
NullFault(t) == [t EXCEPT !.fault = "null"]

\* t with the null dereference recorded that TreeRotateLeft or
\* TreeRotateRight makes when the pivot or the child it lifts is absent
RotateFault(t) == [t EXCEPT !.fault = "rotate"]

\* ghost: t with one more call of TreeRotateLeft or TreeRotateRight counted
Rotated(t) == [t EXCEPT !.rot = @ + 1]

\* insert_fixup, lines 370-377, without the recolouring of lines 371-372
InsertFixRecolor_KeepsColours(t, h2, px, gx, new_root) ==
    [t EXCEPT !.h = h2,
              !.root = IF h2[new_root].mp_Parent = NIL THEN new_root ELSE t.root]

\* insert_fixup, lines 370-377, without the root update of lines 374-375
InsertFixRecolor_KeepsRoot(t, h2, px, gx, new_root) ==
    [t EXCEPT !.h = set_color(set_color(h2, gx, RBRed), px, RBBk)]

\* insert_fixup, lines 370-377: h2 is the heap after the rotation of gx that
\* returned new_root
InsertFixRecolor(t, h2, px, gx, new_root) ==
    [t EXCEPT !.h = set_color(set_color(h2, gx, RBRed), px, RBBk),
              !.root = IF h2[new_root].mp_Parent = NIL THEN new_root ELSE t.root]

\* insert_fixup, lines 354-378: black uncle, x and px in a straight line under
\* gx; rotate gx, recolour, fix the root reference, leave the loop.
InsertFixLine(t, px, gx, IsXLeftChild) ==
    IF IsXLeftChild
    THEN IF ~CanRotateRight(t.h, gx) THEN RotateFault(t)
         ELSE InsertFixRecolor(Rotated(t), TreeRotateRight(t.h, gx), px, gx,
                               t.h[gx].mp_Left)
    ELSE IF ~CanRotateLeft(t.h, gx) THEN RotateFault(t)
         ELSE InsertFixRecolor(Rotated(t), TreeRotateLeft(t.h, gx), px, gx,
                               t.h[gx].mp_Right)

\* insert_fixup, lines 348-351: h1 is the heap after the rotation of px; x
\* and px swap roles
InsertFixSwap(t, h1, x, px, gx) ==
    InsertFixLine([t EXCEPT !.h = h1], x, gx, px = h1[x].mp_Left)


\* insert_fixup, lines 336-352: black uncle on x's side ("zig-zag"); rotate
\* px, swap the roles of x and px and go on with the straight-line case.
InsertFixZigZag(t, x, px, gx, IsXLeftChild) ==
    IF ~IsXLeftChild
    THEN IF ~CanRotateLeft(t.h, px) THEN RotateFault(t)
         ELSE InsertFixSwap(Rotated(t), TreeRotateLeft(t.h, px), x, px, gx)
    ELSE IF ~CanRotateRight(t.h, px) THEN RotateFault(t)
         ELSE InsertFixSwap(Rotated(t), TreeRotateRight(t.h, px), x, px, gx)

\* The while loop of insert_fixup.  t = [h, root, fault, uaf].
RECURSIVE InsertFixLoop(_, _, _)

\* One pass of the loop with the grandparent gx and the uncle ux known
InsertFixPass(t, x, px, gx, ux, IsXLeftChild, IsUncleLeftChild) ==
    IF color_of(t.h, ux) = RBBk
    THEN IF IsXLeftChild = IsUncleLeftChild
         THEN InsertFixZigZag(t, x, px, gx, IsXLeftChild)
         ELSE InsertFixLine(t, px, gx, IsXLeftChild)
    ELSE InsertFixLoop(
             [t EXCEPT !.h = set_color(set_color(set_color(t.h, px, RBBk), ux, RBBk),
                                       gx, RBRed)],
             gx, t.h[gx].mp_Parent)

InsertFixUncle(t, x, px, gx) ==
    IF px = t.h[gx].mp_Left
    THEN InsertFixPass(t, x, px, gx, t.h[gx].mp_Right, x = t.h[px].mp_Left, FALSE)
    ELSE InsertFixPass(t, x, px, gx, t.h[gx].mp_Left, x = t.h[px].mp_Left, TRUE)

InsertFixLoop(t, x, px) ==
    IF ~(px # NIL /\ color_of(t.h, px) = RBRed) THEN t
    ELSE IF t.h[px].mp_Parent = NIL THEN t
    ELSE InsertFixUncle(t, x, px, t.h[px].mp_Parent)

\* insert_fixup without its last statement
insert_fixup_RootLeftRed(t, x) == InsertFixLoop(t, x, t.h[x].mp_Parent)

\* the root, if any, recoloured black (lines 391-394)
BlackenRoot(t) ==
    IF t.fault = "ok" /\ t.root # NIL
    THEN [t EXCEPT !.h = set_color(t.h, t.root, RBBk)]
    ELSE t

insert_fixup(t, x) == BlackenRoot(InsertFixLoop(t, x, t.h[x].mp_Parent))

\* insert_impl, lines 258-271 with the two sides exchanged
InsertLink_WrongSide(t, parent, new_node, v) ==
    IF parent = NIL THEN [t EXCEPT !.root = new_node]
    ELSE IF m_Comp(v, t.h[parent].m_Val)
    THEN [t EXCEPT !.h = SetRight(t.h, parent, new_node)]
    ELSE [t EXCEPT !.h = SetLeft(t.h, parent, new_node)]

\* insert_impl, lines 258-271: hang new_node under parent, or make it the
\* root of an empty tree
InsertLink(t, parent, new_node, v) ==
    IF parent = NIL THEN [t EXCEPT !.root = new_node]
    ELSE IF m_Comp(v, t.h[parent].m_Val)
    THEN [t EXCEPT !.h = SetLeft(t.h, parent, new_node)]
    ELSE [t EXCEPT !.h = SetRight(t.h, parent, new_node)]

\* the value insert_impl returns with the tree it leaves
InsertResult(f, lv, sz, node, ok) ==
    [h |-> f.h, root |-> f.root, live |-> lv, size |-> sz,
     node |-> node, ok |-> ok, fault |-> f.fault, rot |-> f.rot]

\* insert_impl, lines 255-278: the path taken when the key is new
InsertNew(h, root, lv, sz, v, parent, new_node) ==
    InsertResult(
        insert_fixup(InsertLink([h |-> create_node(h, new_node, v, parent),
                                 root |-> root, fault |-> "ok", uaf |-> FALSE,
                                 rot |-> 0],
                                parent, new_node, v),
                     new_node),
        lv \cup {new_node}, sz + 1, new_node, TRUE)

\* insert_impl, after the descent loop has ended with d
InsertAfterDescend(h, root, lv, sz, v, d) ==
    IF d.dup # NIL
    THEN InsertResult([h |-> h, root |-> root, fault |-> "ok", rot |-> 0], lv, sz,
                      d.dup, FALSE)
    ELSE InsertNew(h, root, lv, sz, v, d.parent, DoAllocateNode(lv, v))

\* insert_impl that counts a duplicate as an insertion
insert_impl_CountsDuplicate(h, root, lv, sz, v) ==
    InsertAfterDescend(h, root, lv, sz + (IF TreeFind(h, root, v) # NIL THEN 1 ELSE 0),
                       v, InsertDescend(h, root, NIL, v))

\* insert_impl on the tree (h, root, lv, sz): the resulting tree, the node
\* returned and the "inserted" flag.
insert_impl(h, root, lv, sz, v) ==
    InsertAfterDescend(h, root, lv, sz, v, InsertDescend(h, root, NIL, v))

\* Where create_node can fail: node_traits::allocate (line 285) or the
\* construction of the value (line 289).
FailurePoint == {"allocate", "construct"}

\* tree_base::DoDeallocateNode: the block goes back to the allocator
DoDeallocateNode(lv, p) == lv \ {p}

\* create_node whose catch block rethrows without releasing the block
create_node_Throws_Leaks(lv, n, where) ==
    IF where = "allocate" THEN lv ELSE lv \cup {n}

\* create_node when it fails at `where`: the blocks in use when the exception
\* leaves it.  A failed allocate acquired nothing; a failed construction is
\* caught (lines 296-300), the block n is released and the exception
\* rethrown.
create_node_Throws(lv, n, where) ==
    IF where = "allocate" THEN lv
    ELSE DoDeallocateNode(lv \cup {n}, n)

\* insert_impl when create_node (line 256) throws: the exception leaves
\* insert_impl before line 258, nothing is linked and m_Size is not touched
insert_impl_Throws(h, root, lv, sz, v, where) ==
    [h |-> h, root |-> root, size |-> sz,
     live |-> create_node_Throws(lv, DoAllocateNode(lv, v), where)]

\* ----------------------------------------------------------------- erase
\* t with the fact recorded that the destroyed node was accessed
Touch(t, hit) == [t EXCEPT !.uaf = t.uaf \/ hit]

\* ghost: t with the record of the node the loop of erase_fixup ended on and
\* the nodes as erase_fixup leaves them
Ended(t, double_black) ==
    [t EXCEPT !.ended = Append(@, [x |-> double_black, h |-> t.h])]

\* The statement after the while loop of erase_fixup (line 594).
EraseFixEnd(t, double_black, freed) ==
    IF double_black # NIL
    THEN Ended(Touch([t EXCEPT !.h = set_color(t.h, double_black, RBBk)],
                     double_black = freed),
               double_black)
    ELSE Ended(t, double_black)

\* ghost: t with the record of the terminal step of erase_fixup: the parent
\* px of the double black, the colour px had when the step began, and the
\* nodes as the step leaves them
Terminate(t, px, colour) ==
    [t EXCEPT !.terminal = Append(@, [px |-> px, colour |-> colour, h |-> t.h])]

\* erase_fixup, lines 579-590: h3 is the heap after the rotation of px
EraseFixRecolor(t, h3, double_black, px, bx, oppoX, freed) ==
    IF bx = NIL
    THEN NullFault([t EXCEPT !.h =
            set_color(set_color(set_color(h3, oppoX, RBBk), px, RBBk),
                      double_black, RBBk)])
    ELSE Terminate(EraseFixEnd(
            [t EXCEPT
               !.h = set_color(set_color(set_color(set_color(h3, oppoX, RBBk),
                                                   bx, color_of(set_color(h3, oppoX, RBBk), px)),
                                         px, RBBk),
                               double_black, RBBk),
               !.root = IF h3[bx].mp_Parent = NIL THEN bx ELSE t.root],
            double_black, freed), px, color_of(h3, px))

\* erase_fixup, lines 566-590: rotate px toward the double black, recolour,
\* leave the loop
EraseFixFar(t, double_black, px, IsDBLeftChild, bx, oppoX, freed) ==
    IF IsDBLeftChild
    THEN IF ~CanRotateLeft(t.h, px) THEN RotateFault(t)
         ELSE EraseFixRecolor(Rotated(t), TreeRotateLeft(t.h, px), double_black, px, bx,
                              oppoX, freed)
    ELSE IF ~CanRotateRight(t.h, px) THEN RotateFault(t)
         ELSE EraseFixRecolor(Rotated(t), TreeRotateRight(t.h, px), double_black, px, bx,
                              oppoX, freed)

\* erase_fixup, lines 546-564: the nephew on the double black's side is red,
\* the other is black; rotate bx away, recolour, bx = sameX
EraseFixNear(t, double_black, px, IsDBLeftChild, bx, sameX, oppoX, freed) ==
    IF IsDBLeftChild
    THEN IF ~CanRotateRight(t.h, bx) THEN RotateFault(t)
         ELSE EraseFixFar(
                [Rotated(t) EXCEPT !.h = set_color(set_color(TreeRotateRight(t.h, bx),
                                                    sameX, RBBk), bx, RBRed)],
                double_black, px, IsDBLeftChild, sameX, oppoX, freed)
    ELSE IF ~CanRotateLeft(t.h, bx) THEN RotateFault(t)
         ELSE EraseFixFar(
                [Rotated(t) EXCEPT !.h = set_color(set_color(TreeRotateLeft(t.h, bx),
                                                    sameX, RBBk), bx, RBRed)],
                double_black, px, IsDBLeftChild, sameX, oppoX, freed)

\* erase_fixup, lines 506-528: red brother; fix the root reference, rotate px
\* toward the double black, recolour.  The heap and root after it.
EraseFixRedBrother(t, px, IsDBLeftChild, bx) ==
    [Rotated(t) EXCEPT
       !.root = IF t.h[px].mp_Parent = NIL THEN bx ELSE t.root,
       !.h = set_color(set_color(IF IsDBLeftChild THEN TreeRotateLeft(t.h, px)
                                 ELSE TreeRotateRight(t.h, px),
                                 px, RBRed),
                       bx, RBBk)]

RECURSIVE EraseFixLoop(_, _, _, _)

\* erase_fixup, lines 530-542: brother and nephews black; the brother turns
\* red and the double black moves up to px
EraseFixBad(t, px, freed, ub) ==
    IF t.h[px].m_Color = RBRed
    THEN EraseFixEnd([t EXCEPT !.h = set_color(t.h, px, RBBk)], px, freed)
    ELSE EraseFixLoop(t, px, freed, ub)

\* erase_fixup, lines 530-591, with the brother bx and the nephews as the
\* code holds them at line 530
EraseFixCases(t, double_black, px, IsDBLeftChild, bx, sameX, oppoX, freed, ub) ==
    IF /\ (sameX = NIL \/ t.h[sameX].m_Color = RBBk)
       /\ (oppoX = NIL \/ t.h[oppoX].m_Color = RBBk)
    THEN EraseFixBad([t EXCEPT !.h = set_color(t.h, bx, RBRed)], px, freed, ub)
    ELSE IF /\ sameX # NIL /\ t.h[sameX].m_Color = RBRed
            /\ (oppoX = NIL \/ t.h[oppoX].m_Color = RBBk)
    THEN EraseFixNear(t, double_black, px, IsDBLeftChild, bx, sameX, oppoX, freed)
    ELSE EraseFixFar(t, double_black, px, IsDBLeftChild, bx, oppoX, freed)

\* ghost: t with the record of what the cases after the red-brother case
\* work with: the double black, its parent, the brother and the nephews, and
\* the nodes as they are at line 530
Resume(t, double_black, px, bx, sameX, oppoX) ==
    [t EXCEPT !.resumed = Append(@, [x |-> double_black, px |-> px, bx |-> bx,
                                     sameX |-> sameX, oppoX |-> oppoX, h |-> t.h])]

\* erase_fixup, line 527 and what follows it: t2 is the tree after the
\* rotation and recolouring of the red-brother case; the brother becomes
\* px->mp_Right, the nephews stay as they were read at lines 500-504
EraseFixUpdateBrother(t2, double_black, px, IsDBLeftChild, sameX, oppoX, freed, ub) ==
    EraseFixCases(Resume(t2, double_black, px, t2.h[px].mp_Right, sameX, oppoX),
                  double_black, px, IsDBLeftChild, t2.h[px].mp_Right,
                  sameX, oppoX, freed, ub)

\* erase_fixup, lines 496-528: the nephews are read off the brother found at
\* line 494; after the red-brother case the brother is px->mp_Right
EraseFixBrother(t, double_black, px, IsDBLeftChild, bx, sameX, oppoX, freed, ub) ==
    IF bx # NIL /\ t.h[bx].m_Color = RBRed
    THEN IF ~(IF IsDBLeftChild THEN CanRotateLeft(t.h, px) ELSE CanRotateRight(t.h, px))
         THEN RotateFault(t)
         ELSE EraseFixUpdateBrother(EraseFixRedBrother(t, px, IsDBLeftChild, bx),
                                    double_black, px, IsDBLeftChild, sameX, oppoX,
                                    freed, ub)
    ELSE EraseFixCases(t, double_black, px, IsDBLeftChild, bx, sameX, oppoX, freed, ub)

\* erase_fixup, lines 491-504
EraseFixSide(t, double_black, px, IsDBLeftChild, bx, freed, ub) ==
    EraseFixBrother(t, double_black, px, IsDBLeftChild, bx,
        IF bx = NIL THEN NIL
        ELSE IF IsDBLeftChild THEN t.h[bx].mp_Left ELSE t.h[bx].mp_Right,
        IF bx = NIL THEN NIL
        ELSE IF IsDBLeftChild THEN t.h[bx].mp_Right ELSE t.h[bx].mp_Left,
        freed, ub)

\* ghost: t with the record of one iteration of the loop of erase_fixup: the
\* double black, its parent and the brother found at line 494, and the nodes
\* as they are at that line
Examine(t, double_black, px, bx) ==
    [t EXCEPT !.examined = Append(@, [x |-> double_black, px |-> px, bx |-> bx,
                                      h |-> t.h])]

\* erase_fixup, lines 486-494: one pass of the loop with the parent px known
EraseFixParent(t, double_black, px, freed, ub) ==
    IF px = NIL THEN EraseFixEnd(t, double_black, freed)
    ELSE IF px = freed /\ ub = "trap" THEN [t EXCEPT !.fault = "uaf", !.uaf = TRUE]
    ELSE IF double_black = t.h[px].mp_Left
    THEN EraseFixSide(Examine(Touch(t, px = freed), double_black, px, t.h[px].mp_Right),
                      double_black, px, TRUE, t.h[px].mp_Right, freed, ub)
    ELSE EraseFixSide(Examine(Touch(t, px = freed), double_black, px, t.h[px].mp_Left),
                      double_black, px, FALSE, t.h[px].mp_Left, freed, ub)

\* The while loop of erase_fixup.  freed is the address of the node that
\* erase_node has already destroyed; ub says what an access to it does.
EraseFixLoop(t, double_black, freed, ub) ==
    IF double_black = NIL THEN EraseFixEnd(t, double_black, freed)
    ELSE IF double_black = freed /\ ub = "trap"
    THEN [t EXCEPT !.fault = "uaf", !.uaf = TRUE]
    ELSE IF t.h[double_black].m_Color # RBBk THEN EraseFixEnd(t, double_black, freed)
    ELSE EraseFixParent(Touch(t, double_black = freed), double_black,
                        t.h[double_black].mp_Parent, freed, ub)

erase_fixup(t, double_black, freed, ub) == EraseFixLoop(t, double_black, freed, ub)

\* what the structural part of erase_node leaves behind: the tree, the node
\* spliced out of its position, its colour and its replacement
SpliceResult(t, removed_node, rn_original_color, rn_substitute) ==
    [t |-> t, removed_node |-> removed_node,
     rn_original_color |-> rn_original_color, rn_substitute |-> rn_substitute]

\* erase_node, lines 452-456, without the hand-over of x's left subtree
EraseInherit_DropsLeft(tB, x, s) ==
    [tB EXCEPT !.h = set_color(tB.h, s, tB.h[x].m_Color)]

\* erase_node, lines 452-456, without the parent update of line 453
EraseInherit_NoLeftParent(tB, x, s) ==
    [tB EXCEPT !.h = set_color(SetLeft(tB.h, s, tB.h[x].mp_Left), s, tB.h[x].m_Color)]

\* erase_node, lines 452-456, without the set_color of line 456
EraseInherit_KeepsColour(tB, x, s) ==
    [tB EXCEPT !.h = SetParentIf(SetLeft(tB.h, s, tB.h[x].mp_Left),
                                 tB.h[x].mp_Left, s)]

\* erase_node, lines 452-456: s inherits x's left subtree and colour
EraseInherit(tB, x, s) ==
    [tB EXCEPT !.h = set_color(SetParentIf(SetLeft(tB.h, s, tB.h[x].mp_Left),
                                           tB.h[x].mp_Left, s),
                               s, tB.h[x].m_Color)]

\* erase_node, lines 443-447: s, already replaced by its right child, takes
\* over x's right subtree
EraseAdoptRight(u, x, s) ==
    [u EXCEPT !.h = SetParent(SetRight(u.h, s, u.h[x].mp_Right), u.h[x].mp_Right, s)]

\* erase_node, lines 431-456, with the successor s and its right child known
EraseSpliceSucc(t, x, s, sub) ==
    SpliceResult(
        EraseInherit(
            TreeTransplant(
                IF t.h[s].mp_Parent = x
                THEN [t EXCEPT !.h = SetParentIf(t.h, sub, s)]
                ELSE EraseAdoptRight(TreeTransplant(t, s, sub), x, s),
                x, s),
            x, s),
        s, t.h[s].m_Color, sub)

\* erase_node, lines 419-457: x has two children; its successor s is spliced
\* out and takes x's place, left subtree and colour.
EraseSpliceTwo(t, x) ==
    EraseSpliceSucc(t, x, TreeSuccessor(t.h, x), t.h[TreeSuccessor(t.h, x)].mp_Right)

\* which branch of erase_node, lines 409-457, an erase of x takes: x has no
\* left child, no right child, or two children with the successor as its
\* right child or further down
SpliceCase(h, x) ==
    IF h[x].mp_Left = NIL THEN "no_left"
    ELSE IF h[x].mp_Right = NIL THEN "no_right"
    ELSE IF h[TreeSuccessor(h, x)].mp_Parent = x THEN "successor_child"
    ELSE "successor_below"

\* The structural part of erase_node (lines 403-457, up to DoDestroyNode).
EraseSplice(t, x) ==
    IF t.h[x].mp_Left = NIL
    THEN SpliceResult(TreeTransplant(t, x, t.h[x].mp_Right), x,
                      t.h[x].m_Color, t.h[x].mp_Right)
    ELSE IF t.h[x].mp_Right = NIL
    THEN SpliceResult(TreeTransplant(t, x, t.h[x].mp_Left), x,
                      t.h[x].m_Color, t.h[x].mp_Left)
    ELSE EraseSpliceTwo(t, x)

\* The heap extended by erase_node's stack object leafSentinel (lines
\* 462-464).
WithSentinel(h) ==
    [n \in Node \cup {SENT} |->
        IF n = SENT THEN [FreshNode EXCEPT !.m_Color = RBBk] ELSE h[n]]

\* the tree and the sentinel as erase_node has them when it reaches line 466
\* in an erase of the live node x
SplicedOut(h, root, x) ==
    EraseSplice([h |-> WithSentinel(h), root |-> root, fault |-> "ok", uaf |-> FALSE,
                 examined |-> <<>>, resumed |-> <<>>,
                 terminal |-> <<>>, ended |-> <<>>, rot |-> 0], x)

\* erase_node, lines 467-469: the fix-up is started at the sentinel
UsesSentinel(sp) == sp.rn_original_color = RBBk /\ sp.rn_substitute = NIL

\* erase_node, line 471: the parent the sentinel is given
SentinelParent(sp) == sp.removed_node

\* erase_node, lines 466-478, that hands the sentinel to the root reference
\* of a tree left without root
EraseFix_SentinelAsRoot(sp, x, ub) ==
    IF sp.rn_original_color # RBBk THEN sp.t
    ELSE IF sp.rn_substitute = NIL
    THEN erase_fixup([sp.t EXCEPT !.h = SetParent(sp.t.h, SENT, SentinelParent(sp)),
                                  !.root = IF sp.t.root = NIL THEN SENT ELSE sp.t.root],
                     SENT, x, ub)
    ELSE erase_fixup(sp.t, sp.rn_substitute, x, ub)

\* erase_node, lines 466-478: the fix-up, started at the replacement or at
\* the sentinel whose parent is removed_node
EraseFix(sp, x, ub) ==
    IF sp.rn_original_color # RBBk THEN sp.t
    ELSE IF sp.rn_substitute = NIL
    THEN erase_fixup([sp.t EXCEPT !.h = SetParent(sp.t.h, SENT, SentinelParent(sp))],
                     SENT, x, ub)
    ELSE erase_fixup(sp.t, sp.rn_substitute, x, ub)

\* The tree erase_node leaves: the sentinel is gone with the stack frame and
\* the block of the destroyed node is back with the allocator.
EraseResult(f, lv1, sz1) ==
    [h |-> [n \in Node |-> IF n \in lv1 THEN f.h[n] ELSE FreshNode],
     root |-> f.root, live |-> lv1, size |-> sz1, fault |-> f.fault, uaf |-> f.uaf,
     rot |-> f.rot]

\* erase_node that destroys the node it spliced out (the successor, when x
\* has two children) in place of x
erase_node_DestroysSpliced(h, root, lv, sz, x, ub) ==
    EraseResult(
        EraseFix(SplicedOut(h, root, x), x, ub),
        lv \ {SplicedOut(h, root, x).removed_node},
        sz - 1)

\* erase_node without the decrement of line 460
erase_node_KeepsSize(h, root, lv, sz, x, ub) ==
    EraseResult(
        EraseFix(SplicedOut(h, root, x), x, ub),
        lv \ {x}, sz)

\* erase_node(x) on the tree (h, root, lv, sz) with x a live node.  The block
\* of the destroyed node keeps its contents until the call returns; what an
\* access to it does is decided by ub.
erase_node(h, root, lv, sz, x, ub) ==
    EraseResult(
        EraseFix(SplicedOut(h, root, x), x, ub),
        lv \ {x}, sz - 1)

\* ------------------------------------------------------------------ swap
\* the members of an rb_tree object that carry state (the allocators and the
\* comparator are empty classes)
TreeObject(root, size) == [mp_Root |-> root, m_Size |-> size]

\* rb_tree::swap that leaves out line 194
swap_RootsOnly(this, oth) ==
    [this  |-> TreeObject(oth.mp_Root, this.m_Size),
     other |-> TreeObject(this.mp_Root, oth.m_Size)]

\* rb_tree::swap(other): the two objects after the member-wise std::swap of
\* lines 191-195
swap(this, oth) ==
    [this  |-> TreeObject(oth.mp_Root, oth.m_Size),
     other |-> TreeObject(this.mp_Root, this.m_Size)]

\* ----------------------------------------------------------------- clear
RECURSIVE SubtreeNodes(_, _)
SubtreeNodes(h, n) ==
    IF n = NIL THEN {}
    ELSE {n} \cup SubtreeNodes(h, h[n].mp_Left) \cup SubtreeNodes(h, h[n].mp_Right)

\* The calls of DoDestroyNode that ClearRec(n) makes, in the order it makes
\* them: those for the left subtree, those for the right subtree, then n
RECURSIVE DestroyCalls(_, _)
DestroyCalls(h, n) ==
    IF n = NIL THEN <<>>
    ELSE DestroyCalls(h, h[n].mp_Left) \o DestroyCalls(h, h[n].mp_Right) \o <<n>>

\* ClearRec without the recursion into the right subtree (line 440)
ClearRec_LeftOnly(h, lv, n) ==
    IF n = NIL THEN lv ELSE lv \ ({n} \cup SubtreeNodes(h, h[n].mp_Left))

\* ClearRec(n): the blocks still in use after it has destroyed every node
\* below n, children first
ClearRec(h, lv, n) ==
    lv \ {DestroyCalls(h, n)[i] : i \in 1..Len(DestroyCalls(h, n))}

\* ------------------------------------------------------------ verification
\* verify_node_rec(node, black_count, expected_black_height): the value
\* returned, with the value left in the reference parameter
\* expected_black_height (-1 until the first leaf is met)
VerifyResult(ok, ebh) == [ok |-> ok, ebh |-> ebh]

VerifyLeaf(black_count, ebh) ==
    IF ebh = -1 THEN VerifyResult(TRUE, black_count + 1)
    ELSE IF black_count + 1 # ebh THEN VerifyResult(FALSE, ebh)
    ELSE VerifyResult(TRUE, ebh)

\* lines 652-655: the right subtree is visited whatever the left one gave
VerifyBoth(left_ok, right) == VerifyResult(left_ok.ok /\ right.ok, right.ebh)

RECURSIVE verify_node_rec(_, _, _, _)

VerifyChildren(h, node, black_count, left_ok) ==
    VerifyBoth(left_ok, verify_node_rec(h, h[node].mp_Right, black_count, left_ok.ebh))

VerifyNode(h, node, black_count, ebh) ==
    IF /\ color_of(h, node) = RBRed
       /\ \/ h[node].mp_Left # NIL /\ color_of(h, h[node].mp_Left) = RBRed
          \/ h[node].mp_Right # NIL /\ color_of(h, h[node].mp_Right) = RBRed
    THEN VerifyResult(FALSE, ebh)
    ELSE VerifyChildren(h, node, black_count,
                        verify_node_rec(h, h[node].mp_Left, black_count, ebh))

verify_node_rec(h, node, black_count, ebh) ==
    IF node = NIL THEN VerifyLeaf(black_count, ebh)
    ELSE IF h[node].mp_Left # NIL /\ h[h[node].mp_Left].mp_Parent # node
    THEN VerifyResult(FALSE, ebh)
    ELSE IF h[node].mp_Right # NIL /\ h[h[node].mp_Right].mp_Parent # node
    THEN VerifyResult(FALSE, ebh)
    ELSE VerifyNode(h, node,
                    black_count + (IF color_of(h, node) = RBBk THEN 1 ELSE 0), ebh)

\* verify_rb_properties without the root test of lines 603-606
verify_rb_properties_SkipsRoot(h, root) == verify_node_rec(h, root, 0, -1).ok

verify_rb_properties(h, root) ==
    /\ ~(root # NIL /\ color_of(h, root) # RBBk)
    /\ verify_node_rec(h, root, 0, -1).ok

IsRBTree(h, root) == verify_rb_properties(h, root)

\* --------------------------------------------------------------- actions
NoCall == [op |-> "none", arg |-> 0, node |-> NIL, ret |-> 0, sentinel |-> FALSE, spliced |-> "none", case |-> "none", rotations |-> 0]

Init ==
    /\ heap = [n \in Node |-> FreshNode]
    /\ live = {}
    /\ mp_Root = NIL
    /\ m_Size = 0
    /\ abs = {}
    /\ last = NoCall
    /\ fault = "ok"
    /\ other = [mp_Root |-> NIL, m_Size |-> 0, abs |-> {}]

\* rb_tree::insert(v)
Insert(v) ==
    /\ fault = "ok"
    /\ (TreeFind(heap, mp_Root, v) # NIL \/ v \in Node \ live)
    /\ LET r == insert_impl(heap, mp_Root, live, m_Size, v) IN
        /\ heap' = r.h
        /\ mp_Root' = r.root
        /\ live' = r.live
        /\ m_Size' = r.size
        /\ fault' = r.fault
        /\ last' = [op |-> "insert", arg |-> v, node |-> r.node,
                    ret |-> IF r.ok THEN 1 ELSE 0, sentinel |-> FALSE, spliced |-> "none",
                    case |-> "none", rotations |-> r.rot]
    /\ abs' = abs \cup {v}
    /\ UNCHANGED other

\* rb_tree::insert(v) of a key that is not in the tree, when the allocation
\* of the node or the construction of its value throws; the exception
\* propagates out of insert
InsertThrows(v) ==
    /\ fault = "ok"
    /\ TreeFind(heap, mp_Root, v) = NIL
    /\ v \in Node \ live
    /\ \E where \in FailurePoint :
        LET r == insert_impl_Throws(heap, mp_Root, live, m_Size, v, where) IN
            /\ heap' = r.h
            /\ mp_Root' = r.root
            /\ live' = r.live
            /\ m_Size' = r.size
    /\ last' = [op |-> "insert_throws", arg |-> v, node |-> NIL, ret |-> 0,
                sentinel |-> FALSE, spliced |-> "none", case |-> "none", rotations |-> 0]
    /\ UNCHANGED <<abs, fault, other>>

\* rb_tree::erase(const key_type&)
EraseKey(key) ==
    /\ fault = "ok"
    /\ LET z == TreeFind(heap, mp_Root, key) IN
        IF z = NIL
        THEN /\ last' = [op |-> "erase", arg |-> key, node |-> NIL, ret |-> 0,
                         sentinel |-> FALSE, spliced |-> "none", case |-> "none", rotations |-> 0]
             /\ UNCHANGED <<heap, live, mp_Root, m_Size, fault>>
        ELSE \E ub \in UBOutcome :
             LET r == erase_node(heap, mp_Root, live, m_Size, z, ub) IN
                /\ heap' = r.h
                /\ mp_Root' = r.root
                /\ live' = r.live
                /\ m_Size' = r.size
                /\ fault' = r.fault
                /\ last' = [op |-> "erase", arg |-> key, node |-> z, ret |-> 1,
                            sentinel |-> UsesSentinel(SplicedOut(heap, mp_Root, z)),
                            spliced |-> SplicedOut(heap, mp_Root, z).rn_original_color,
                            case |-> SpliceCase(heap, z), rotations |-> r.rot]
    /\ abs' = abs \ {key}
    /\ UNCHANGED other

\* rb_tree::erase(iterator), pos being end() or an iterator to a live node
EraseIter(z) ==
    /\ fault = "ok"
    /\ z \in live \cup {NIL}
    /\ IF z = NIL
       THEN /\ last' = [op |-> "erase_it", arg |-> NIL, node |-> NIL, ret |-> 0,
                        sentinel |-> FALSE, spliced |-> "none", case |-> "none", rotations |-> 0]
            /\ UNCHANGED <<heap, live, mp_Root, m_Size, fault, abs>>
       ELSE \E ub \in UBOutcome :
            LET s == TreeSuccessor(heap, z)
                r == erase_node(heap, mp_Root, live, m_Size, z, ub) IN
                /\ heap' = r.h
                /\ mp_Root' = r.root
                /\ live' = r.live
                /\ m_Size' = r.size
                /\ fault' = r.fault
                /\ last' = [op |-> "erase_it", arg |-> z, node |-> s, ret |-> 0,
                            sentinel |-> UsesSentinel(SplicedOut(heap, mp_Root, z)),
                            spliced |-> SplicedOut(heap, mp_Root, z).rn_original_color,
                            case |-> SpliceCase(heap, z), rotations |-> r.rot]
                /\ abs' = abs \ {heap[z].m_Val}
    /\ UNCHANGED other

\* rb_tree::clear() -> tree_base::DoClear()
Clear ==
    /\ fault = "ok"
    /\ live' = ClearRec(heap, live, mp_Root)
    /\ heap' = [n \in Node |-> IF n \in live' THEN heap[n] ELSE FreshNode]
    /\ mp_Root' = NIL
    /\ m_Size' = 0
    /\ abs' = {}
    /\ last' = [op |-> "clear", arg |-> Len(DestroyCalls(heap, mp_Root)), node |-> NIL,
                ret |-> 0, sentinel |-> FALSE, spliced |-> "none", case |-> "none", rotations |-> 0]
    /\ UNCHANGED <<fault, other>>

\* rb_tree::swap(other)
Swap ==
    /\ fault = "ok"
    /\ LET r == swap(TreeObject(mp_Root, m_Size), TreeObject(other.mp_Root, other.m_Size)) IN
        /\ mp_Root' = r.this.mp_Root
        /\ m_Size' = r.this.m_Size
        /\ other' = [mp_Root |-> r.other.mp_Root, m_Size |-> r.other.m_Size, abs |-> abs]
    /\ abs' = other.abs
    /\ last' = [op |-> "swap", arg |-> 0, node |-> NIL, ret |-> 0, sentinel |-> FALSE, spliced |-> "none", case |-> "none", rotations |-> 0]
    /\ UNCHANGED <<heap, live, fault>>

\* rb_tree::IsRBTree() const
Verify ==
    /\ last.op = "none"
    /\ last' = [op |-> "IsRBTree", arg |-> 0, node |-> NIL,
                ret |-> IF IsRBTree(heap, mp_Root) THEN 1 ELSE 0, sentinel |-> FALSE, spliced |-> "none", case |-> "none", rotations |-> 0]
    /\ UNCHANGED <<heap, live, mp_Root, m_Size, abs, fault, other>>

Next ==
    \/ \E v \in Key : Insert(v)
    \/ \E v \in Key : InsertThrows(v)
    \/ \E k \in Key : EraseKey(k)
    \/ \E z \in Node \cup {NIL} : EraseIter(z)
    \/ Clear

Spec == Init /\ [][Next]_vars

\* a tree that is only ever inserted into
NextInsert == \E v \in Key : Insert(v)

SpecInsert == Init /\ [][NextInsert]_vars

\* two trees, each inserted into or cleared while it is the one at hand, and
\* swapped
NextSwap ==
    \/ \E v \in Key : Insert(v)
    \/ Clear
    \/ Swap

SpecSwap == Init /\ [][NextSwap]_vars

\* ------------------------------------------------------- longer scenario
\* A tree of DeepKey keys that a fixed sequence of calls builds, and every
\* order of erasing its keys.
\* the calls that build the tree, as main() would make them on an empty
\* rb_tree<int>
DeepScript ==
    << <<"insert", 1>>, <<"insert", 6>>, <<"insert", 7>>, <<"insert", 3>>,
       <<"insert", 4>>, <<"insert", 2>>, <<"erase", 3>>, <<"erase", 2>>,
       <<"insert", 2>>, <<"insert", 5>>, <<"insert", 3>> >>

\* the tree s after the call c: rb_tree::insert(c[2]) or
\* rb_tree::erase(c[2]) of a key that is present, on a build where the
\* block of a destroyed node keeps its contents
DeepCall(s, c) ==
    IF c[1] = "insert" THEN insert_impl(s.h, s.root, s.live, s.size, c[2])
    ELSE erase_node(s.h, s.root, s.live, s.size, TreeFind(s.h, s.root, c[2]), "stale")

\* the tree after the first i calls of the script
RECURSIVE Replay(_)
Replay(i) ==
    IF i = 0 THEN [h |-> [n \in Node |-> FreshNode], root |-> NIL, live |-> {}, size |-> 0]
    ELSE DeepCall(Replay(i - 1), DeepScript[i])

\* rb_tree<int> after the calls of the script
InitDeep ==
    /\ heap = Replay(Len(DeepScript)).h
    /\ mp_Root = Replay(Len(DeepScript)).root
    /\ live = Replay(Len(DeepScript)).live
    /\ m_Size = Replay(Len(DeepScript)).size
    /\ abs = {heap[n].m_Val : n \in live}
    /\ last = NoCall
    /\ fault = "ok"
    /\ other = [mp_Root |-> NIL, m_Size |-> 0, abs |-> {}]

NextDeep == \E k \in 1..DeepKey : EraseKey(k)

SpecDeep == InitDeep /\ [][NextDeep]_vars

\* ----------------------------------------- IsRBTree on arbitrary node graphs
\* IsRBTree is a function of the nodes it is given.  It is applied to every
\* binary tree of at most VerifyNodes nodes, with every colouring and with
\* every value, right or wrong, in the parent pointers.
VerifyNodes == 3

\* the binary trees on the nodes lo..hi, numbered in order: root, and the
\* left and right child of every node
RECURSIVE Shapes(_, _)
Shapes(lo, hi) ==
    IF lo > hi THEN {[root |-> NIL, left |-> <<>>, right |-> <<>>]}
    ELSE UNION {{[root  |-> r,
                  left  |-> (r :> a.root) @@ a.left @@ b.left,
                  right |-> (r :> b.root) @@ a.right @@ b.right]
                    : a \in Shapes(lo, r - 1), b \in Shapes(r + 1, hi)}
                : r \in lo..hi}

InitVerify ==
    \E k \in 0..VerifyNodes :
    \E shape \in Shapes(1, k) :
    \E colour \in [1..k -> {RBRed, RBBk}] :
    \E parent \in [1..k -> 0..k] :
        /\ heap = [n \in Node |->
                      IF n <= k
                      THEN [mp_Left |-> shape.left[n], mp_Right |-> shape.right[n],
                            mp_Parent |-> parent[n], m_Color |-> colour[n], m_Val |-> n]
                      ELSE FreshNode]
        /\ live = 1..k
        /\ mp_Root = shape.root
        /\ m_Size = k
        /\ abs = 1..k
        /\ last = NoCall
        /\ fault = "ok"
        /\ other = [mp_Root |-> NIL, m_Size |-> 0, abs |-> {}]

NextVerify == Verify

SpecVerify == InitVerify /\ [][NextVerify]_vars

\* ------------------------------------------------------------------- map
\* mstl::map<Key, T> keeps std::pair<const Key, T> values in an rb_tree with
\* first_key extraction.  A pair (k, m) is the number k * MappedCount + m:
\* the order of the numbers is the order of the pairs, first component first.
MappedCount == 2

make_pair(k, m) == k * MappedCount + m

\* first_key::operator(): p.first
first_key(p) == p \div MappedCount

\* p.second
second(p) == p % MappedCount

\* the keys of the pairs that fit in a node
MapKey == {first_key(p) : p \in Key}

\* map::find with TreeFind taking the node's value for its key
RECURSIVE map_find_WholeValue(_, _, _)
map_find_WholeValue(h, root, key) ==
    IF root = NIL THEN NIL
    ELSE IF m_Comp(key, h[root].m_Val) THEN map_find_WholeValue(h, h[root].mp_Left, key)
    ELSE IF m_Comp(h[root].m_Val, key) THEN map_find_WholeValue(h, h[root].mp_Right, key)
    ELSE root

\* map::find(key) -> tree_base::find -> TreeFind with KeyOfValue = first_key:
\* the comparator sees the key and the key extracted from the node's value
RECURSIVE map_find(_, _, _)
map_find(h, root, key) ==
    IF root = NIL THEN NIL
    ELSE IF m_Comp(key, first_key(h[root].m_Val)) THEN map_find(h, h[root].mp_Left, key)
    ELSE IF m_Comp(first_key(h[root].m_Val), key) THEN map_find(h, h[root].mp_Right, key)
    ELSE root

\* map::at(key): the iterator found, whether std::out_of_range is thrown,
\* and the mapped value returned otherwise
map_at(h, root, key) ==
    [it |-> map_find(h, root, key),
     throws |-> map_find(h, root, key) = end,
     ret |-> IF map_find(h, root, key) = end THEN 0
             ELSE second(h[map_find(h, root, key)].m_Val)]

\* map::insert(val) -> rb_tree::insert(val).  insert_impl hands the values
\* themselves to m_Comp (lines 241, 245, 264), so the tree is ordered by the
\* whole pairs.
MapInsert(val) == Insert(val)

\* map::operator[](key): insert of make_pair(key, T{}), then (*it).second
MapIndex(key) ==
    /\ fault = "ok"
    /\ make_pair(key, 0) \in Node
    /\ (TreeFind(heap, mp_Root, make_pair(key, 0)) # NIL
            \/ make_pair(key, 0) \in Node \ live)
    /\ LET r == insert_impl(heap, mp_Root, live, m_Size, make_pair(key, 0)) IN
        /\ heap' = r.h
        /\ mp_Root' = r.root
        /\ live' = r.live
        /\ m_Size' = r.size
        /\ fault' = r.fault
        /\ last' = [op |-> "operator[]", arg |-> key, node |-> r.node,
                    ret |-> second(r.h[r.node].m_Val), sentinel |-> FALSE,
                    spliced |-> "none", case |-> "none", rotations |-> r.rot]
    /\ abs' = abs \cup {make_pair(key, 0)}
    /\ UNCHANGED other

\* map::at(key)
MapAt(key) ==
    /\ fault = "ok"
    /\ last' = [op |-> IF map_at(heap, mp_Root, key).throws THEN "at_out_of_range"
                       ELSE "at",
                arg |-> key, node |-> map_at(heap, mp_Root, key).it,
                ret |-> map_at(heap, mp_Root, key).ret, sentinel |-> FALSE,
                spliced |-> "none", case |-> "none", rotations |-> 0]
    /\ UNCHANGED <<heap, live, mp_Root, m_Size, abs, fault, other>>

NextMap ==
    \/ \E val \in Key : MapInsert(val)
    \/ \E key \in MapKey : MapIndex(key)
    \/ \E key \in MapKey : MapAt(key)

SpecMap == Init /\ [][NextMap]_vars

\* ------------------------------------------------------------------- bst
\* The unbalanced bst (binary_search_tree.h) on the same variables.  Its
\* nodes are node<T>: the three links and the value, no colour.
BstFreshNode == [mp_Left |-> NIL, mp_Right |-> NIL, mp_Parent |-> NIL, m_Val |-> 0]

\* bst::find_node
RECURSIVE find_node(_, _, _)
find_node(h, current, v) ==
    IF current = NIL THEN NIL
    ELSE IF m_Comp(v, h[current].m_Val) THEN find_node(h, h[current].mp_Left, v)
    ELSE IF m_Comp(h[current].m_Val, v) THEN find_node(h, h[current].mp_Right, v)
    ELSE current

\* bst::min_node(i_node)
RECURSIVE min_node(_, _)
min_node(h, i_node) ==
    IF i_node # NIL /\ h[i_node].mp_Left # NIL THEN min_node(h, h[i_node].mp_Left)
    ELSE i_node

\* bst::successor, the loop of case 2
RECURSIVE successor_climb(_, _, _)
successor_climb(h, n, p) ==
    IF p # NIL /\ n = h[p].mp_Right THEN successor_climb(h, p, h[p].mp_Parent) ELSE p

\* bst::successor
successor(h, n) ==
    IF n = NIL THEN NIL
    ELSE IF h[n].mp_Right # NIL THEN min_node(h, h[n].mp_Right)
    ELSE successor_climb(h, n, h[n].mp_Parent)

\* the descent loop of bst::insert_impl (lines 364-386)
RECURSIVE bst_descend(_, _, _, _)
bst_descend(h, current, parent, v) ==
    IF current = NIL THEN [dup |-> NIL, parent |-> parent]
    ELSE IF m_Comp(v, h[current].m_Val)
         THEN bst_descend(h, h[current].mp_Left, current, v)
    ELSE IF m_Comp(h[current].m_Val, v)
         THEN bst_descend(h, h[current].mp_Right, current, v)
    ELSE [dup |-> current, parent |-> parent]

\* bst::create_node
bst_create_node(h, n, v, parent) ==
    [h EXCEPT ![n] = [mp_Left |-> NIL, mp_Right |-> NIL, mp_Parent |-> parent,
                      m_Val |-> v]]

\* bst::insert_impl, lines 391-402: n, already constructed in h, is hung
\* under parent or becomes the root
bst_link(h, root, parent, n) ==
    IF parent = NIL THEN [h |-> h, root |-> n]
    ELSE IF m_Comp(h[n].m_Val, h[parent].m_Val)
    THEN [h |-> SetLeft(h, parent, n), root |-> root]
    ELSE [h |-> SetRight(h, parent, n), root |-> root]

\* bst::insert_impl, after the descent loop has ended with d
bst_insert_after(h, root, lv, sz, v, d, n) ==
    IF d.dup # NIL
    THEN [h |-> h, root |-> root, live |-> lv, size |-> sz, node |-> d.dup, ok |-> FALSE]
    ELSE [h |-> bst_link(bst_create_node(h, n, v, d.parent), root, d.parent, n).h,
          root |-> bst_link(bst_create_node(h, n, v, d.parent), root, d.parent, n).root,
          live |-> lv \cup {n}, size |-> sz + 1, node |-> n, ok |-> TRUE]

\* bst::insert_impl
bst_insert_impl(h, root, lv, sz, v) ==
    bst_insert_after(h, root, lv, sz, v, bst_descend(h, root, NIL, v),
                     DoAllocateNode(lv, v))

\* bst::transplant without the parent update of line 452
transplant_KeepsParent(t, a, b) ==
    [t EXCEPT
       !.root = IF t.h[a].mp_Parent = NIL THEN b ELSE @,
       !.h = IF t.h[a].mp_Parent = NIL THEN t.h
             ELSE IF a = t.h[t.h[a].mp_Parent].mp_Left
             THEN SetLeft(t.h, t.h[a].mp_Parent, b)
             ELSE SetRight(t.h, t.h[a].mp_Parent, b)]

\* bst::transplant(a, b): b takes a's place under a's parent
transplant(t, a, b) ==
    [t EXCEPT
       !.root = IF t.h[a].mp_Parent = NIL THEN b ELSE @,
       !.h = SetParentIf(IF t.h[a].mp_Parent = NIL THEN t.h
                         ELSE IF a = t.h[t.h[a].mp_Parent].mp_Left
                         THEN SetLeft(t.h, t.h[a].mp_Parent, b)
                         ELSE SetRight(t.h, t.h[a].mp_Parent, b),
                         b, t.h[a].mp_Parent)]

\* bst::erase_node, lines 492-496: s, already replaced by its right child,
\* takes over z's right subtree; the assert of line 494 aborts the process
bst_adopt_right(t, z, s) ==
    IF t.h[z].mp_Right = NIL THEN [t EXCEPT !.fault = "assert"]
    ELSE [t EXCEPT !.h = SetParent(SetRight(t.h, s, t.h[z].mp_Right),
                                   t.h[z].mp_Right, s)]

\* bst::erase_node, lines 503-505: s takes over z's left subtree
bst_adopt_left(t, z, s) ==
    [t EXCEPT !.h = SetParentIf(SetLeft(t.h, s, t.h[z].mp_Left), t.h[z].mp_Left, s)]

\* bst::erase_node, case 3 (lines 471-506) with the successor s known
bst_erase_two(t, z, s) ==
    bst_adopt_left(
        transplant(IF t.h[s].mp_Parent # z
                   THEN bst_adopt_right(transplant(t, s, t.h[s].mp_Right), z, s)
                   ELSE t,
                   z, s),
        z, s)

\* bst::erase_node up to the destruction of z (lines 462-506)
bst_splice(t, z) ==
    IF t.h[z].mp_Left = NIL THEN transplant(t, z, t.h[z].mp_Right)
    ELSE IF t.h[z].mp_Right = NIL THEN transplant(t, z, t.h[z].mp_Left)
    ELSE bst_erase_two(t, z, successor(t.h, z))

\* the tree bst::erase_node leaves when the splice left f: z is destroyed
\* and its block is back with the allocator, the size is one less
bst_erased(f, lv, sz, z) ==
    [h |-> [n \in Node |-> IF n \in lv \ {z} THEN f.h[n] ELSE BstFreshNode],
     root |-> f.root, live |-> lv \ {z}, size |-> sz - 1, fault |-> f.fault]

\* bst::erase_node(z) on the tree (h, root, lv, sz), z a live node
bst_erase_node(h, root, lv, sz, z) ==
    bst_erased(bst_splice([h |-> h, root |-> root, fault |-> "ok"], z), lv, sz, z)

\* which of the cases of erase_node the node z falls under
EraseCase(h, z) ==
    IF h[z].mp_Left = NIL /\ h[z].mp_Right = NIL THEN "leaf"
    ELSE IF h[z].mp_Left = NIL \/ h[z].mp_Right = NIL THEN "one_child"
    ELSE IF h[successor(h, z)].mp_Parent = z THEN "successor_child"
    ELSE "successor_below"

BstNoCall == [op |-> "none", arg |-> 0, node |-> NIL, ret |-> 0, case |-> "none"]

\* bst::bst()
InitBst ==
    /\ heap = [n \in Node |-> BstFreshNode]
    /\ live = {}
    /\ mp_Root = NIL
    /\ m_Size = 0
    /\ abs = {}
    /\ last = BstNoCall
    /\ fault = "ok"
    /\ other = [mp_Root |-> NIL, m_Size |-> 0, abs |-> {}]

\* bst::insert(v)
BstInsert(v) ==
    /\ fault = "ok"
    /\ LET r == bst_insert_impl(heap, mp_Root, live, m_Size, v) IN
        /\ heap' = r.h
        /\ mp_Root' = r.root
        /\ live' = r.live
        /\ m_Size' = r.size
        /\ last' = [op |-> "insert", arg |-> v, node |-> r.node,
                    ret |-> IF r.ok THEN 1 ELSE 0, case |-> "none"]
    /\ abs' = abs \cup {v}
    /\ UNCHANGED <<fault, other>>

\* bst::erase(const key_type&)
BstErase(v) ==
    /\ fault = "ok"
    /\ LET z == find_node(heap, mp_Root, v) IN
        IF z = NIL
        THEN /\ last' = [op |-> "erase", arg |-> v, node |-> NIL, ret |-> 0,
                         case |-> "none"]
             /\ UNCHANGED <<heap, live, mp_Root, m_Size, fault>>
        ELSE LET r == bst_erase_node(heap, mp_Root, live, m_Size, z) IN
                /\ heap' = r.h
                /\ mp_Root' = r.root
                /\ live' = r.live
                /\ m_Size' = r.size
                /\ fault' = r.fault
                /\ last' = [op |-> "erase", arg |-> v, node |-> z, ret |-> 1,
                            case |-> EraseCase(heap, z)]
    /\ abs' = abs \ {v}
    /\ UNCHANGED other

NextBst ==
    \/ \E v \in Key : BstInsert(v)
    \/ \E v \in Key : BstErase(v)

SpecBst == InitBst /\ [][NextBst]_vars

\* ------------------------------------------------ comparing two bst trees
\* Two trees a and b over the same small key set live in one heap: a in
\* mp_Root / m_Size / abs, b in the record other.  The node of a holding v
\* sits at address v, the node of b holding v at address EqKeys + v.
EqKeys == 3
EqKey == 1..EqKeys

\* bst::max_node(i_node)
RECURSIVE max_node(_, _)
max_node(h, i_node) ==
    IF i_node # NIL /\ h[i_node].mp_Right # NIL THEN max_node(h, h[i_node].mp_Right)
    ELSE i_node

\* bst::begin() const, which starts at max_node()
const_begin(h, root) == max_node(h, root)

\* bst::end() const
const_end == NIL

\* std::equal(first1, last1, first2, last2) over two tree_iterator ranges:
\* element by element until either range ends, equal when both end together
RECURSIVE std_equal(_, _, _)
std_equal(h, first1, first2) ==
    IF first1 = const_end \/ first2 = const_end
    THEN first1 = const_end /\ first2 = const_end
    ELSE /\ h[first1].m_Val = h[first2].m_Val
         /\ std_equal(h, TreeSuccessor(h, first1), TreeSuccessor(h, first2))

\* operator==(const bst& a, const bst& b)
bst_equal(h, rootA, sizeA, rootB, sizeB) ==
    IF sizeA # sizeB THEN FALSE
    ELSE std_equal(h, const_begin(h, rootA), const_begin(h, rootB))

InitBstEq == InitBst

\* a.insert(v)
BstEqInsertA(v) ==
    /\ LET r == bst_insert_impl(heap, mp_Root, live, m_Size, v) IN
        /\ heap' = r.h
        /\ mp_Root' = r.root
        /\ live' = r.live
        /\ m_Size' = r.size
        /\ last' = [op |-> "insert", arg |-> v, node |-> r.node,
                    ret |-> IF r.ok THEN 1 ELSE 0, case |-> "a"]
    /\ abs' = abs \cup {v}
    /\ UNCHANGED <<fault, other>>

\* b.insert(v)
BstEqInsertB(v) ==
    /\ LET r == bst_insert_after(heap, other.mp_Root, live, other.m_Size, v,
                                 bst_descend(heap, other.mp_Root, NIL, v),
                                 DoAllocateNode(live, EqKeys + v)) IN
        /\ heap' = r.h
        /\ live' = r.live
        /\ other' = [mp_Root |-> r.root, m_Size |-> r.size, abs |-> other.abs \cup {v}]
        /\ last' = [op |-> "insert", arg |-> v, node |-> r.node,
                    ret |-> IF r.ok THEN 1 ELSE 0, case |-> "b"]
    /\ UNCHANGED <<mp_Root, m_Size, abs, fault>>

\* a == b
BstEqCompare ==
    /\ last' = [op |-> "equal", arg |-> 0, node |-> NIL,
                ret |-> IF bst_equal(heap, mp_Root, m_Size, other.mp_Root, other.m_Size)
                        THEN 1 ELSE 0,
                case |-> "none"]
    /\ UNCHANGED <<heap, live, mp_Root, m_Size, abs, fault, other>>

NextBstEq ==
    \/ \E v \in EqKey : BstEqInsertA(v)
    \/ \E v \in EqKey : BstEqInsertB(v)
    \/ BstEqCompare

SpecBstEq == InitBstEq /\ [][NextBstEq]_vars


\* -------------------------------------------------------------- avl_tree
\* avl_tree (avl_tree.h) on the same variables.  Its nodes are avl_node<T>:
\* the three links, the value and m_Height.
AvlFreshNode ==
    [mp_Left |-> NIL, mp_Right |-> NIL, mp_Parent |-> NIL, m_Height |-> 0, m_Val |-> 0]

Max(a, b) == IF a >= b THEN a ELSE b

\* avl_tree::get_height
get_height(h, n) == IF n = NIL THEN 0 ELSE h[n].m_Height

\* avl_tree::get_balance_factor
get_balance_factor(h, n) ==
    IF n = NIL THEN 0
    ELSE get_height(h, h[n].mp_Left) - get_height(h, h[n].mp_Right)

\* avl_tree::update_height
update_height(h, n) ==
    IF n = NIL THEN h
    ELSE [h EXCEPT ![n].m_Height = 1 + Max(get_height(h, h[n].mp_Left),
                                           get_height(h, h[n].mp_Right))]

\* avl_tree::rotate_left(n): the heap after it; the new subtree root it
\* returns is n's former right child
rotate_left(h, n) ==
    update_height(update_height(TreeRotateLeft(h, n), n), h[n].mp_Right)

\* avl_tree::rotate_right(n); it returns n's former left child
rotate_right(h, n) ==
    update_height(update_height(TreeRotateRight(h, n), n), h[n].mp_Left)

\* rebalance_upward, lines 329-334, that never straightens the left child
straighten_left_Never(h, p) == h

\* rebalance_upward, lines 329-334: a left child that leans right is rotated
\* left first
straighten_left(h, p) ==
    IF get_balance_factor(h, h[p].mp_Left) < 0 THEN rotate_left(h, h[p].mp_Left)
    ELSE h

\* rebalance_upward, lines 348-353: a right child that leans left is rotated
\* right first
straighten_right(h, p) ==
    IF get_balance_factor(h, h[p].mp_Right) > 0 THEN rotate_right(h, h[p].mp_Right)
    ELSE h

RECURSIVE rebalance_upward(_, _)

\* rebalance_upward, lines 338-343 and 357-362: h is the heap after the
\* rotation of p that has put new_root in its place; the loop goes on from
\* new_root's parent
rebalance_rotated(t, h, new_root) ==
    rebalance_upward([t EXCEPT !.h = h,
                               !.root = IF h[new_root].mp_Parent = NIL THEN new_root ELSE @,
                               !.rotations = @ + 1],
                     h[new_root].mp_Parent)

\* rebalance_upward, lines 336 and 355, with the heap h after the rotation of
\* the child, if any
rebalance_heavy(t, h, p, left) ==
    IF left THEN rebalance_rotated(t, rotate_right(h, p), h[p].mp_Left)
    ELSE rebalance_rotated(t, rotate_left(h, p), h[p].mp_Right)

\* rebalance_upward, lines 324-363, with the heap h after update_height(p)
rebalance_at(t, h, p) ==
    IF get_balance_factor(h, p) > 1
    THEN rebalance_heavy(t, straighten_left(h, p), p, TRUE)
    ELSE IF get_balance_factor(h, p) < -1
    THEN rebalance_heavy(t, straighten_right(h, p), p, FALSE)
    ELSE rebalance_upward([t EXCEPT !.h = h], h[p].mp_Parent)

\* avl_tree::rebalance_upward(n)
rebalance_upward(t, p) ==
    IF p = NIL THEN t ELSE rebalance_at(t, update_height(t.h, p), p)

\* the descent loop of avl_tree::insert_impl (lines 208-225)
RECURSIVE avl_descend(_, _, _, _)
avl_descend(h, current, parent, v) ==
    IF current = NIL THEN [dup |-> NIL, parent |-> parent]
    ELSE IF m_Comp(v, h[current].m_Val)
         THEN avl_descend(h, h[current].mp_Left, current, v)
    ELSE IF m_Comp(h[current].m_Val, v)
         THEN avl_descend(h, h[current].mp_Right, current, v)
    ELSE [dup |-> current, parent |-> parent]

\* avl_tree::create_node
avl_create_node(h, n, v, parent) ==
    [h EXCEPT ![n] = [mp_Left |-> NIL, mp_Right |-> NIL, mp_Parent |-> parent,
                      m_Height |-> 1, m_Val |-> v]]

\* avl_tree::insert_impl, lines 231-243
avl_link(h, root, parent, new_node, v) ==
    IF parent = NIL THEN [h |-> h, root |-> new_node, fault |-> "ok", rotations |-> 0]
    ELSE IF m_Comp(v, h[parent].m_Val)
    THEN [h |-> SetLeft(h, parent, new_node), root |-> root, fault |-> "ok",
          rotations |-> 0]
    ELSE [h |-> SetRight(h, parent, new_node), root |-> root, fault |-> "ok",
          rotations |-> 0]

\* the value an avl_tree operation returns with the tree f it leaves
avl_result(f, lv, sz, node, ok) ==
    [h |-> [n \in Node |-> IF n \in lv THEN f.h[n] ELSE AvlFreshNode],
     root |-> f.root, live |-> lv, size |-> sz, node |-> node, ok |-> ok,
     fault |-> f.fault, rotations |-> f.rotations]

\* avl_tree::insert_impl, after the descent loop has ended with d
avl_insert_after(h, root, lv, sz, v, d, new_node) ==
    IF d.dup # NIL
    THEN avl_result([h |-> h, root |-> root, fault |-> "ok", rotations |-> 0],
                    lv, sz, d.dup, FALSE)
    ELSE avl_result(
            rebalance_upward(avl_link(avl_create_node(h, new_node, v, d.parent),
                                      root, d.parent, new_node, v),
                             d.parent),
            lv \cup {new_node}, sz + 1, new_node, TRUE)

\* avl_tree::insert_impl
avl_insert_impl(h, root, lv, sz, v) ==
    avl_insert_after(h, root, lv, sz, v, avl_descend(h, root, NIL, v),
                     DoAllocateNode(lv, v))

\* avl_tree::erase_node, lines 411-415
avl_adopt_right(t, z, s) ==
    IF t.h[z].mp_Right = NIL THEN [t EXCEPT !.fault = "assert"]
    ELSE [t EXCEPT !.h = SetParent(SetRight(t.h, s, t.h[z].mp_Right),
                                   t.h[z].mp_Right, s)]

\* avl_tree::erase_node, lines 420-424
avl_adopt_left(t, z, s) ==
    [t EXCEPT !.h = update_height(
                        SetParentIf(SetLeft(t.h, s, t.h[z].mp_Left), t.h[z].mp_Left, s),
                        s)]

\* avl_tree::erase_node, lines 400-424, with the successor s known
avl_erase_two(t, z, s) ==
    avl_adopt_left(
        TreeTransplant(IF t.h[s].mp_Parent # z
                       THEN avl_adopt_right(TreeTransplant(t, s, t.h[s].mp_Right), z, s)
                       ELSE t,
                       z, s),
        z, s)

\* avl_tree::erase_node, lines 375-425: the splice
avl_splice(t, z) ==
    IF t.h[z].mp_Left = NIL THEN TreeTransplant(t, z, t.h[z].mp_Right)
    ELSE IF t.h[z].mp_Right = NIL THEN TreeTransplant(t, z, t.h[z].mp_Left)
    ELSE avl_erase_two(t, z, TreeSuccessor(t.h, z))

\* avl_tree::erase_node, lines 377, 382 and 391-398: where the rebalancing
\* starts
rebalance_from(h, z) ==
    IF h[z].mp_Left = NIL \/ h[z].mp_Right = NIL THEN h[z].mp_Parent
    ELSE IF h[TreeSuccessor(h, z)].mp_Parent = z THEN TreeSuccessor(h, z)
    ELSE h[TreeSuccessor(h, z)].mp_Parent

\* avl_tree::erase_node(z), z a live node
avl_erase_node(h, root, lv, sz, z) ==
    avl_result(
        rebalance_upward(avl_splice([h |-> h, root |-> root, fault |-> "ok",
                                     rotations |-> 0], z),
                         rebalance_from(h, z)),
        lv \ {z}, sz - 1, NIL, TRUE)

AvlNoCall == [op |-> "none", arg |-> 0, node |-> NIL, ret |-> 0, rotations |-> 0]

\* avl_tree::avl_tree()
InitAvl ==
    /\ heap = [n \in Node |-> AvlFreshNode]
    /\ live = {}
    /\ mp_Root = NIL
    /\ m_Size = 0
    /\ abs = {}
    /\ last = AvlNoCall
    /\ fault = "ok"
    /\ other = [mp_Root |-> NIL, m_Size |-> 0, abs |-> {}]

\* avl_tree::insert(v)
AvlInsert(v) ==
    /\ fault = "ok"
    /\ LET r == avl_insert_impl(heap, mp_Root, live, m_Size, v) IN
        /\ heap' = r.h
        /\ mp_Root' = r.root
        /\ live' = r.live
        /\ m_Size' = r.size
        /\ fault' = r.fault
        /\ last' = [op |-> "insert", arg |-> v, node |-> r.node,
                    ret |-> IF r.ok THEN 1 ELSE 0, rotations |-> r.rotations]
    /\ abs' = abs \cup {v}
    /\ UNCHANGED other

\* avl_tree::erase(const key_type&)
AvlErase(key) ==
    /\ fault = "ok"
    /\ LET z == TreeFind(heap, mp_Root, key) IN
        IF z = NIL
        THEN /\ last' = [op |-> "erase", arg |-> key, node |-> NIL, ret |-> 0,
                         rotations |-> 0]
             /\ UNCHANGED <<heap, live, mp_Root, m_Size, fault>>
        ELSE LET r == avl_erase_node(heap, mp_Root, live, m_Size, z) IN
                /\ heap' = r.h
                /\ mp_Root' = r.root
                /\ live' = r.live
                /\ m_Size' = r.size
                /\ fault' = r.fault
                /\ last' = [op |-> "erase", arg |-> key, node |-> z, ret |-> 1,
                            rotations |-> r.rotations]
    /\ abs' = abs \ {key}
    /\ UNCHANGED other

NextAvl ==
    \/ \E v \in Key : AvlInsert(v)
    \/ \E key \in Key : AvlErase(key)

SpecAvl == InitAvl /\ [][NextAvl]_vars

\* ------------------------------------------------------------------ list
\* mstl::list (mlist.h) on the same variables: heap holds the links and the
\* master link, live the allocated links, m_Size list_rep::m_Size, abs the
\* plain sequence the same calls produce.  mp_Root and other are not used.
MaxLinks == 3
MaxVal == 2

\* addresses of the blocks link_traits::allocate can hand out
Link == 1..MaxLinks

\* the element values
ListVal == 1..MaxVal

\* the address of list_rep::m_LinkMaster
LinkMaster == -1

\* a block not holding a link
FreshLink == [prev |-> NIL, succ |-> NIL, m_Val |-> 0]

SetSucc(h, n, x) == [h EXCEPT ![n].succ = x]

SetPrev(h, n, x) == [h EXCEPT ![n].prev = x]

\* list::begin() and list::end(), as addresses
list_begin(h) == h[LinkMaster].succ

list_end == LinkMaster

\* list_rep::DoAllocateNode: the lowest unused block
DoAllocateLink(lv) == CHOOSE n \in Link \ lv : \A m \in Link \ lv : n <= m

\* list::create_node(v): the link constructed in block n (linkbase{} nulls
\* both pointers)
list_create_node(h, n, v) == [h EXCEPT ![n] = [prev |-> NIL, succ |-> NIL, m_Val |-> v]]

\* list::link_before without the assignment of line 340
link_before_NoBack(h, pos, n) ==
    SetSucc(SetPrev(SetSucc(h, n, pos), n, h[pos].prev), h[pos].prev, n)

\* list::link_before(pos, n), lines 337-340 in order
link_before(h, pos, n) ==
    SetPrev(SetSucc(SetPrev(SetSucc(h, n, pos), n, h[pos].prev), h[pos].prev, n),
            pos, n)

\* list::unlink, line 345, on the heap h left by line 344
unlink_succ(h, n) == SetPrev(h, h[n].succ, h[n].prev)

\* list::unlink(n)
unlink(h, n) == unlink_succ(SetSucc(h, h[n].prev, h[n].succ), n)

\* list::insert(pos, v): the list it leaves and the iterator it returns
list_insert(h, lv, sz, pos, v) ==
    [h |-> link_before(list_create_node(h, DoAllocateLink(lv), v), pos,
                       DoAllocateLink(lv)),
     live |-> lv \cup {DoAllocateLink(lv)}, size |-> sz + 1,
     ret |-> DoAllocateLink(lv)]

\* list::destroy_node(n) on the heap h: the block goes back to the allocator
destroy_node(h, n) == [h EXCEPT ![n] = FreshLink]

\* list::erase(pos): the list it leaves and the iterator it returns
list_erase(h, lv, sz, pos) ==
    IF pos = LinkMaster THEN [h |-> h, live |-> lv, size |-> sz, ret |-> pos]
    ELSE [h |-> destroy_node(unlink(h, pos), pos), live |-> lv \ {pos},
          size |-> sz - 1, ret |-> h[pos].succ]

\* the links met by ++ from p until end(), at most fuel of them
RECURSIVE Forward(_, _, _)
Forward(h, p, fuel) ==
    IF p = LinkMaster \/ p = NIL \/ fuel = 0 THEN <<>>
    ELSE <<p>> \o Forward(h, h[p].succ, fuel - 1)

\* the links met by -- from p until end(), at most fuel of them
RECURSIVE Backward(_, _, _)
Backward(h, p, fuel) ==
    IF p = LinkMaster \/ p = NIL \/ fuel = 0 THEN <<>>
    ELSE <<p>> \o Backward(h, h[p].prev, fuel - 1)

\* forward traversal from begin() to end()
Links(h) == Forward(h, list_begin(h), MaxLinks + 1)

\* the position of the iterator pos in the forward traversal, end() being
\* one past the last element
Position(h, pos) ==
    IF pos = LinkMaster THEN Len(Links(h)) + 1
    ELSE CHOOSE i \in 1..Len(Links(h)) : Links(h)[i] = pos

\* the plain sequence q with v placed before position i
InsertAt(q, i, v) == SubSeq(q, 1, i - 1) \o <<v>> \o SubSeq(q, i, Len(q))

\* the plain sequence q without its element at position i (q itself when
\* there is none)
RemoveAt(q, i) == SubSeq(q, 1, i - 1) \o SubSeq(q, i + 1, Len(q))

ListNoCall == [op |-> "none", arg |-> 0, pos |-> NIL, ret |-> NIL, index |-> 0]

\* list::list(): list_rep() with InitMaster
InitList ==
    /\ heap = [n \in Link \cup {LinkMaster} |->
                  IF n = LinkMaster
                  THEN [prev |-> LinkMaster, succ |-> LinkMaster, m_Val |-> 0]
                  ELSE FreshLink]
    /\ live = {}
    /\ mp_Root = NIL
    /\ m_Size = 0
    /\ abs = <<>>
    /\ last = ListNoCall
    /\ fault = "ok"
    /\ other = [mp_Root |-> NIL, m_Size |-> 0, abs |-> {}]

\* a call of list::insert(pos, v) made under the name op
ListInsertAs(op, pos, v) ==
    /\ Cardinality(live) < MaxLinks
    /\ LET r == list_insert(heap, live, m_Size, pos, v) IN
        /\ heap' = r.h
        /\ live' = r.live
        /\ m_Size' = r.size
        /\ last' = [op |-> op, arg |-> v, pos |-> pos, ret |-> r.ret,
                    index |-> Position(heap, pos)]
    /\ abs' = InsertAt(abs, Position(heap, pos), v)
    /\ UNCHANGED <<mp_Root, fault, other>>

\* a call of list::erase(pos) made under the name op
ListEraseAs(op, pos) ==
    /\ LET r == list_erase(heap, live, m_Size, pos) IN
        /\ heap' = r.h
        /\ live' = r.live
        /\ m_Size' = r.size
        /\ last' = [op |-> op, arg |-> 0, pos |-> pos, ret |-> r.ret,
                    index |-> Position(heap, pos)]
    /\ abs' = RemoveAt(abs, Position(heap, pos))
    /\ UNCHANGED <<mp_Root, fault, other>>

\* list::insert(pos, v), pos an iterator of the list
ListInsert(pos, v) == ListInsertAs("insert", pos, v)

\* list::push_back(v): insert(end(), v)
push_back(v) == ListInsertAs("push_back", list_end, v)

\* list::push_front(v): insert(begin(), v)
push_front(v) == ListInsertAs("push_front", list_begin(heap), v)

\* list::erase(pos), pos an iterator of the list
ListErase(pos) == ListEraseAs("erase", pos)

\* list::pop_back(): erase(--end())
pop_back == ListEraseAs("pop_back", heap[list_end].prev)

\* list::pop_front(): erase(begin())
pop_front == ListEraseAs("pop_front", list_begin(heap))

NextList ==
    \/ \E v \in ListVal : push_back(v)
    \/ \E v \in ListVal : push_front(v)
    \/ \E pos \in live \cup {list_end}, v \in ListVal : ListInsert(pos, v)
    \/ \E pos \in live \cup {list_end} : ListErase(pos)
    \/ pop_front
    \/ pop_back

SpecList == InitList /\ [][NextList]_vars

\* ------------------------------------------------------------- mstl::vector
\* The vector is the record rep = heap: sz and space as in vector_rep, and
\* elem the allocated block, a function from the indices 0..space-1 to the
\* value held there.  Storage that holds no constructed element reads Raw.
MaxLen == 3
VecVal == 1..MaxVal
Raw == 0

\* What a std::move_backward call outside its contract can do: copy the
\* block at once as memmove does (copying nothing when the count is not
\* positive), copy element by element from the back, or end the process.
MoveOutcome == {"bulk", "stepwise", "trap"}

\* the lists of length at most n over VecVal
VecLists(n) == UNION {[1..k -> VecVal] : k \in 0..n}

\* vector_rep(alloc, n): a block of n unconstructed elements
vector_rep(n) == [sz |-> 0, space |-> n, elem |-> [j \in 0..(n - 1) |-> Raw]]

\* vector(std::initializer_list<T>)
vector_of(i_lst) ==
    [sz |-> Len(i_lst), space |-> Len(i_lst),
     elem |-> [j \in 0..(Len(i_lst) - 1) |-> i_lst[j + 1]]]

\* vector::reserve(newAlloc)
vector_reserve(r, newAlloc) ==
    IF newAlloc <= r.space THEN r
    ELSE [sz |-> r.sz, space |-> newAlloc,
          elem |-> [j \in 0..(newAlloc - 1) |-> IF j < r.sz THEN r.elem[j] ELSE Raw]]

\* vector::push_back(newElem)
vector_push_back(r, newElem) ==
    LET b == IF r.space = 0 THEN vector_reserve(r, 8)
             ELSE IF r.sz = r.space THEN vector_reserve(r, 2 * r.space)
             ELSE r
    IN  [b EXCEPT !.elem[b.sz] = newElem, !.sz = b.sz + 1]

\* std::move(first, last, d_first) within one block, d_first < first
std_move(elem, first1, last1, d_first) ==
    [j \in DOMAIN elem |->
        IF j >= d_first /\ j < d_first + (last1 - first1)
        THEN elem[j - d_first + first1] ELSE elem[j]]

\* std::move_backward(first, last, d_last) done as one memmove; what falls
\* before the block is written outside it
MoveBulk(elem, first1, last1, d_last) ==
    [j \in DOMAIN elem |->
        IF j >= d_last - (last1 - first1) /\ j < d_last
        THEN elem[j - (d_last - (last1 - first1)) + first1] ELSE elem[j]]

\* std::move_backward(first, last, d_last) done by its loop
\* while (first != last) *(--d_last) = std::move(*(--last))
RECURSIVE MoveStepwise(_, _, _, _)
MoveStepwise(elem, first1, last1, d_last) ==
    IF first1 = last1 THEN elem
    ELSE MoveStepwise(IF d_last - 1 \in DOMAIN elem
                      THEN [elem EXCEPT ![d_last - 1] = elem[last1 - 1]]
                      ELSE elem,
                      first1, last1 - 1, d_last - 1)

\* the call writes before the first element of the block or cannot end
MoveCanTrap(first1, last1, d_last) ==
    \/ first1 > last1
    \/ first1 < last1 /\ d_last - (last1 - first1) < 0

\* std::move_backward(first, last, d_last) on the block elem, the indices
\* counted from its first element.  The call is within its contract only
\* for an empty range here: d_last = first + 1 lies in (first, last] for
\* every other range, and first > last is no range at all.
std_move_backward(elem, first1, last1, d_last, how) ==
    IF first1 = last1 THEN [elem |-> elem, fault |-> "ok"]
    ELSE IF first1 > last1
    THEN [elem |-> elem, fault |-> IF how = "bulk" THEN "ok" ELSE "range"]
    ELSE IF how = "trap" /\ MoveCanTrap(first1, last1, d_last)
    THEN [elem |-> elem, fault |-> "range"]
    ELSE IF how = "stepwise"
    THEN [elem |-> MoveStepwise(elem, first1, last1, d_last), fault |-> "ok"]
    ELSE [elem |-> MoveBulk(elem, first1, last1, d_last), fault |-> "ok"]

\* vector::insert, lines 282-286, on the rep b left by the reserve
vector_insert_in(b, index, val, how) ==
    LET m == std_move_backward(b.elem, index, b.sz - 1, index + 1, how) IN
    IF m.fault # "ok" THEN [r |-> b, ret |-> index, fault |-> m.fault]
    ELSE [r |-> [b EXCEPT !.elem = [m.elem EXCEPT ![index] = val], !.sz = b.sz + 1],
          ret |-> index, fault |-> "ok"]

\* vector::insert(p, val), p = begin() + index
vector_insert(r, index, val, how) ==
    vector_insert_in(IF r.sz = r.space
                     THEN vector_reserve(r, IF r.sz = 0 THEN 8 ELSE 2 * r.sz)
                     ELSE r,
                     index, val, how)

\* vector::erase(p), p = begin() + index
vector_erase(r, index) ==
    IF index = r.sz THEN r
    ELSE [r EXCEPT !.elem = [std_move(r.elem, index + 1, r.sz, index)
                                EXCEPT ![r.sz - 1] = Raw],
                   !.sz = r.sz - 1]

\* the elements of the vector, begin() to end()
Contents(r) == [k \in 1..r.sz |-> r.elem[k - 1]]

VecNoCall == [op |-> "none", arg |-> 0, index |-> 0, ret |-> 0, before |-> <<>>,
              moved |-> FALSE]

InitVec ==
    /\ \E i_lst \in VecLists(MaxLen) : heap = vector_of(i_lst)
    /\ live = {}
    /\ mp_Root = NIL
    /\ m_Size = 0
    /\ abs = <<>>
    /\ last = VecNoCall
    /\ fault = "ok"
    /\ other = [mp_Root |-> NIL, m_Size |-> 0, abs |-> {}]

\* v.insert(v.begin() + index, val)
VecInsert(index, val, how) ==
    /\ fault = "ok"
    /\ heap.sz <= MaxLen
    /\ LET r == vector_insert(heap, index, val, how) IN
        /\ heap' = r.r
        /\ fault' = r.fault
        /\ last' = [op |-> "insert", arg |-> val, index |-> index, ret |-> r.ret,
                    before |-> Contents(heap), moved |-> r.r.space # heap.space]
    /\ UNCHANGED <<live, mp_Root, m_Size, abs, other>>

\* v.push_back(val)
VecPushBack(val) ==
    /\ fault = "ok"
    /\ heap.sz <= MaxLen
    /\ heap' = vector_push_back(heap, val)
    /\ last' = [op |-> "push_back", arg |-> val, index |-> heap.sz, ret |-> 0,
                before |-> Contents(heap),
                moved |-> vector_push_back(heap, val).space # heap.space]
    /\ UNCHANGED <<live, mp_Root, m_Size, abs, fault, other>>

\* v.erase(v.begin() + index)
VecErase(index) ==
    /\ fault = "ok"
    /\ heap' = vector_erase(heap, index)
    /\ last' = [op |-> "erase", arg |-> 0, index |-> index, ret |-> index,
                before |-> Contents(heap), moved |-> FALSE]
    /\ UNCHANGED <<live, mp_Root, m_Size, abs, fault, other>>

NextVec ==
    \/ \E index \in 0..heap.sz, val \in VecVal, how \in MoveOutcome :
          VecInsert(index, val, how)
    \/ \E val \in VecVal : VecPushBack(val)
    \/ \E index \in 0..heap.sz : VecErase(index)

SpecVec == InitVec /\ [][NextVec]_vars


\* ------------------------------------------------------- model sanity
Ptr == Node \cup {NIL}

TypeOK ==
    /\ live \subseteq Node
    /\ mp_Root \in Ptr
    /\ m_Size \in Int
    /\ fault \in {"ok", "uaf", "null", "rotate"}
    /\ \A n \in Node : /\ heap[n].mp_Left \in Ptr
                       /\ heap[n].mp_Right \in Ptr
                       /\ heap[n].mp_Parent \in Ptr
                       /\ heap[n].m_Color \in {RBRed, RBBk}

\* no pointer of the tree designates a destroyed node
NoDangling ==
    /\ mp_Root \in live \cup {NIL}
    /\ \A n \in live : /\ heap[n].mp_Left \in live \cup {NIL}
                       /\ heap[n].mp_Right \in live \cup {NIL}
                       /\ heap[n].mp_Parent \in live \cup {NIL}


\* ------------------------------------------------- structural predicates
\* the nodes of the tree: everything reachable from the root by child links
TreeNodes == SubtreeNodes(heap, mp_Root)

\* the black counts of the downward paths from n to an absent child
RECURSIVE BlackCounts(_, _)
BlackCounts(h, n) ==
    IF n = NIL THEN {0}
    ELSE LET below == BlackCounts(h, h[n].mp_Left) \cup BlackCounts(h, h[n].mp_Right)
         IN  {c + (IF h[n].m_Color = RBBk THEN 1 ELSE 0) : c \in below}

\* in-order sequence of the values below n
RECURSIVE InOrder(_, _)
InOrder(h, n) ==
    IF n = NIL THEN <<>>
    ELSE InOrder(h, h[n].mp_Left) \o <<h[n].m_Val>> \o InOrder(h, h[n].mp_Right)

\* the values met by ++ from begin() until end()
RECURSIVE Walk(_, _)
Walk(h, n) == IF n = NIL THEN <<>> ELSE <<h[n].m_Val>> \o Walk(h, TreeSuccessor(h, n))

Traversal == Walk(heap, TreeMin(heap, mp_Root))

StrictlyIncreasing(q) == \A i \in 1..(Len(q) - 1) : q[i] < q[i + 1]

SubtreeVals(h, n) == {h[m].m_Val : m \in SubtreeNodes(h, n)}

Completed == fault = "ok"

EqualBlackHeight == \A n \in TreeNodes : Cardinality(BlackCounts(heap, n)) = 1
NoRedRed ==
    \A n \in TreeNodes :
        heap[n].m_Color = RBRed =>
            /\ color_of(heap, heap[n].mp_Left) = RBBk
            /\ color_of(heap, heap[n].mp_Right) = RBBk
RootBlack == mp_Root # NIL => heap[mp_Root].m_Color = RBBk
BSTOrder ==
    \A n \in TreeNodes :
        /\ \A v \in SubtreeVals(heap, heap[n].mp_Left) : v < heap[n].m_Val
        /\ \A v \in SubtreeVals(heap, heap[n].mp_Right) : heap[n].m_Val < v
ParentInverse ==
    /\ \A n \in TreeNodes :
        /\ heap[n].mp_Left # NIL => heap[heap[n].mp_Left].mp_Parent = n
        /\ heap[n].mp_Right # NIL => heap[heap[n].mp_Right].mp_Parent = n
    /\ \A n \in live :
        IF heap[n].mp_Parent = NIL THEN n = mp_Root
        ELSE n \in {heap[heap[n].mp_Parent].mp_Left, heap[heap[n].mp_Parent].mp_Right}

\* the node of the tree that holds key k (NIL if none), found by exhaustive
\* search of the tree, not by comparator-driven descent
Holder(h, root, k) ==
    IF \E n \in SubtreeNodes(h, root) : h[n].m_Val = k
    THEN CHOOSE n \in SubtreeNodes(h, root) : h[n].m_Val = k
    ELSE NIL

\* least element of the tree greater than k (0 if none)
NextKey(h, root, k) ==
    LET up == {v \in SubtreeVals(h, root) : v > k}
    IN  IF up = {} THEN 0 ELSE CHOOSE v \in up : \A w \in up : v <= w


\* an erase (by key or by iterator) that removed a node was the last call
Erased == \/ last.op = "erase" /\ last.ret = 1
          \/ last.op = "erase_it" /\ last.arg # NIL

\* ------------------------------------------------------------ properties

\* C1: after every completed insert or erase, every downward path from any
\* node of the tree to an absent child passes through the same number of
\* black nodes.
C1_EqualBlackHeight == Completed => EqualBlackHeight

\* C2: after every completed insert or erase, no red node of the tree has a
\* red child.
C2_NoRedRed == Completed => NoRedRed

\* C3: after every completed insert or erase, the root, if present, is
\* black.
C3_RootBlack == Completed => RootBlack

\* C3 case: an erase has completed and left a tree of at least three nodes
\* whose root is not the node the tree was built around first
C3_Witness ==
    /\ Completed /\ Erased
    /\ m_Size >= 3 /\ mp_Root # NIL
    /\ heap[mp_Root].m_Color = RBBk
    /\ heap[mp_Root].mp_Left # NIL /\ heap[mp_Root].mp_Right # NIL

\* C4: after every completed insert or erase, at every node everything in
\* the left subtree is less and everything in the right subtree is greater,
\* and the walk from begin() to end() yields strictly increasing keys.
C4_BSTOrder == Completed => (BSTOrder /\ StrictlyIncreasing(Traversal))

\* C4 case: an erase has completed on a tree that still holds four keys on
\* both sides of its root
C4_Witness ==
    /\ Completed /\ Erased
    /\ Len(Traversal) >= 4
    /\ heap[mp_Root].mp_Left # NIL /\ heap[mp_Root].mp_Right # NIL

\* C5: after any sequence of insert and erase calls, the keys visited from
\* begin() to end() are exactly the keys inserted and not erased since, each
\* exactly once.
C5_RefinesSet ==
    Completed => /\ Len(Traversal) = Cardinality(abs)
                 /\ {Traversal[i] : i \in 1..Len(Traversal)} = abs

\* C5 case: a key was erased from a tree that keeps three other keys
C5_Witness ==
    /\ Completed /\ last.op = "erase" /\ last.ret = 1
    /\ Cardinality(abs) = 3 /\ last.arg \notin abs
    /\ Len(Traversal) = 3

\* C6: after every completed insert, erase or clear, size() is the number of
\* nodes reachable from the root, and empty() holds exactly when the root is
\* absent.
C6_SizeIsNodeCount ==
    Completed => /\ m_Size = Cardinality(TreeNodes)
                 /\ (m_Size = 0) = (mp_Root = NIL)

\* C6 case: an erase by iterator has brought a tree down to two nodes
C6_Witness ==
    /\ Completed /\ last.op = "erase_it" /\ last.arg # NIL
    /\ m_Size = 2 /\ Cardinality(TreeNodes) = 2

\* C7: after every completed insert or erase, the parent of each child of a
\* node A is A, and every live node other than the root is a child of its
\* parent.
C7_ParentInverse == Completed => ParentInverse

\* C7 case: an erase has completed and some node of the tree has a left
\* child that itself has a child
C7_Witness ==
    /\ Completed /\ Erased
    /\ \E n \in TreeNodes :
        /\ heap[n].mp_Left # NIL
        /\ heap[heap[n].mp_Left].mp_Parent = n
        /\ heap[heap[n].mp_Left].mp_Left # NIL

\* C8: insert of a key that is already in the tree returns the node that
\* holds it together with false and changes neither size(), nor the shape,
\* nor any colour, nor any stored value.
C8_DuplicateInsertNoOp ==
    [][(last'.op = "insert" /\ Holder(heap, mp_Root, last'.arg) # NIL) =>
            /\ last'.ret = 0
            /\ last'.node = Holder(heap, mp_Root, last'.arg)
            /\ fault' = "ok"
            /\ UNCHANGED <<heap, live, mp_Root, m_Size>>]_vars

\* C8 case: an insert has returned false on a tree of at least three nodes
C8_Witness ==
    /\ Completed /\ last.op = "insert" /\ last.ret = 0
    /\ m_Size >= 3 /\ last.node \in TreeNodes /\ heap[last.node].m_Val = last.arg

\* C9: erase(key) returns 1 exactly when a node with that key was present,
\* and then the key is no longer found and size() is one less; otherwise it
\* returns 0 and leaves shape, colours and size unchanged.
C9_EraseKeyResult ==
    [][last'.op = "erase" =>
            IF Holder(heap, mp_Root, last'.arg) # NIL
            THEN /\ fault' = "ok"
                 /\ last'.ret = 1
                 /\ TreeFind(heap', mp_Root', last'.arg) = NIL
                 /\ Holder(heap', mp_Root', last'.arg) = NIL
                 /\ m_Size' = m_Size - 1
            ELSE /\ fault' = "ok"
                 /\ last'.ret = 0
                 /\ UNCHANGED <<heap, live, mp_Root, m_Size>>]_vars

\* C10: erase(iterator) on a non-end iterator removes the referenced node
\* and returns an iterator to the element that was its in-order successor
\* (end if it was the maximum); the node returned is a live node of the tree
\* after the removal.
C10_EraseIterResult ==
    [][(last'.op = "erase_it" /\ last'.arg # NIL) =>
            LET z == last'.arg
                nk == NextKey(heap, mp_Root, heap[z].m_Val)
            IN  /\ fault' = "ok"
                /\ z \notin live' /\ z \notin SubtreeNodes(heap', mp_Root')
                /\ IF nk = 0 THEN last'.node = NIL
                   ELSE /\ last'.node \in SubtreeNodes(heap', mp_Root')
                        /\ last'.node \in live'
                        /\ heap'[last'.node].m_Val = nk]_vars

\* keys a lookup may be called with: the keys of the model and one below and
\* one above all of them
QueryKey == 0..(MaxKey + 1)

\* the node of the tree with the least value satisfying Q (NIL if none)
LeastNode(h, root, Q(_)) ==
    LET cand == {n \in SubtreeNodes(h, root) : Q(h[n].m_Val)}
    IN  IF cand = {} THEN NIL
        ELSE CHOOSE n \in cand : \A m \in cand : h[n].m_Val <= h[m].m_Val

\* the node of the tree with the greatest value satisfying Q (NIL if none)
GreatestNode(h, root, Q(_)) ==
    LET cand == {n \in SubtreeNodes(h, root) : Q(h[n].m_Val)}
    IN  IF cand = {} THEN NIL
        ELSE CHOOSE n \in cand : \A m \in cand : h[m].m_Val <= h[n].m_Val

\* C11: in any tree reached by insert and erase, find(key) is the node that
\* holds key when the key is in the tree and end() otherwise, and
\* contains(key) is true exactly when find(key) is not end().
C11_FindContains ==
    Completed =>
        \A k \in QueryKey :
            /\ find(heap, mp_Root, k) = Holder(heap, mp_Root, k)
            /\ contains(heap, mp_Root, k) = (find(heap, mp_Root, k) # NIL)
            /\ contains(heap, mp_Root, k) = (k \in abs)

\* C11 case: after an erase, one key is found two levels below the root and
\* another key of the model is not found
C11_Witness ==
    /\ Completed /\ Erased
    /\ \E k \in Key : /\ find(heap, mp_Root, k) # NIL
                      /\ heap[find(heap, mp_Root, k)].mp_Parent # NIL
                      /\ heap[heap[find(heap, mp_Root, k)].mp_Parent].mp_Parent # NIL
    /\ \E k \in Key : find(heap, mp_Root, k) = NIL /\ ~contains(heap, mp_Root, k)

\* C12: in any tree reached by insert and erase, lower_bound(k) is the least
\* element not less than k and upper_bound(k) the least element greater than
\* k, each end() when there is none, and equal_range(k) is the pair of the
\* two.
C12_Bounds ==
    Completed =>
        \A k \in QueryKey :
            /\ lower_bound(heap, mp_Root, k) = LeastNode(heap, mp_Root, LAMBDA v : v >= k)
            /\ upper_bound(heap, mp_Root, k) = LeastNode(heap, mp_Root, LAMBDA v : v > k)
            /\ equal_range(heap, mp_Root, k) =
                    <<LeastNode(heap, mp_Root, LAMBDA v : v >= k),
                      LeastNode(heap, mp_Root, LAMBDA v : v > k)>>

\* C12 case: after an erase, some key has a lower bound that holds it and an
\* upper bound that is another node, some key absent from the tree has equal
\* bounds, and some key has no upper bound
C12_Witness ==
    /\ Completed /\ Erased
    /\ \E k \in Key : /\ lower_bound(heap, mp_Root, k) # NIL
                      /\ heap[lower_bound(heap, mp_Root, k)].m_Val = k
                      /\ upper_bound(heap, mp_Root, k) # NIL
                      /\ upper_bound(heap, mp_Root, k) # lower_bound(heap, mp_Root, k)
    /\ \E k \in Key : /\ k \notin abs
                      /\ lower_bound(heap, mp_Root, k) # NIL
                      /\ lower_bound(heap, mp_Root, k) = upper_bound(heap, mp_Root, k)
    /\ \E k \in Key : lower_bound(heap, mp_Root, k) # NIL /\ upper_bound(heap, mp_Root, k) = NIL

\* C13: when the keys that were inserted are erased by key, in any order,
\* every erase of a key that is in the tree returns 1, and the erase that
\* removes the last of them leaves empty() true, size() 0 and no root.
C13_EraseAllEmpties ==
    [][(last'.op = "erase" /\ last'.arg \in abs) =>
            /\ fault' = "ok"
            /\ last'.ret = 1
            /\ (abs' = {} => (m_Size' = 0 /\ mp_Root' = NIL /\ live' = {}))]_vars

\* C14: on a tree that is only ever inserted into, IsRBTree() is true after
\* every insert: the root is black, no red node has a red child, every path
\* has the same black count and the parent links are consistent.
C14_InsertKeepsRBTree ==
    /\ fault = "ok"
    /\ IsRBTree(heap, mp_Root)
    /\ RootBlack /\ NoRedRed /\ EqualBlackHeight /\ ParentInverse

\* C14 case: a fifth key has been inserted, the root has both subtrees, a
\* red node hangs under a black one that is not the root
C14_Witness ==
    /\ last.op = "insert" /\ last.ret = 1 /\ m_Size >= 5
    /\ heap[mp_Root].mp_Left # NIL /\ heap[mp_Root].mp_Right # NIL
    /\ IsRBTree(heap, mp_Root)
    /\ \E n \in TreeNodes : /\ heap[n].m_Color = RBRed
                            /\ heap[n].mp_Parent # mp_Root

\* the node an erase step destroys (NIL for an insert and for an erase that
\* finds nothing), read off the record of the call
Destroyed(call) ==
    IF call.op = "erase" /\ call.ret = 1 THEN call.node
    ELSE IF call.op = "erase_it" THEN call.arg
    ELSE NIL

\* C15: an iterator to element k taken before an insert or an erase of
\* another key refers afterwards to a live node that holds k: across every
\* insert and erase each node other than the one holding the erased key
\* stays live and keeps its value, and it is in the tree when the call has
\* returned; nothing but that one node is destroyed.
C15_IteratorsStable ==
    [][last'.op \in {"insert", "erase", "erase_it"} =>
            /\ \A n \in live \ {Destroyed(last')} :
                    /\ n \in live'
                    /\ heap'[n].m_Val = heap[n].m_Val
                    /\ fault' = "ok" => n \in SubtreeNodes(heap', mp_Root')
            /\ live \ live' \subseteq {Destroyed(last')}]_vars

\* C15 case: a key with a smaller and a greater neighbour in the tree was
\* erased, the node that held it is gone and both neighbours are still there
C15_Witness ==
    /\ Completed /\ last.op = "erase" /\ last.ret = 1
    /\ last.node \notin live
    /\ \E a, b \in TreeNodes : heap[a].m_Val < last.arg /\ last.arg < heap[b].m_Val
    /\ m_Size >= 3

\* C16: in any tree reached by insert and erase, ++ at element e leads to the
\* least element greater than e (end if e is the maximum), -- at e to the
\* greatest element smaller than e (end if e is the minimum), and ++ from
\* begin() visits every element exactly once, reaching end() after size()
\* steps.
C16_IncrementDecrement ==
    Completed =>
        /\ \A n \in TreeNodes :
            /\ Increment(heap, n) = LeastNode(heap, mp_Root, LAMBDA v : v > heap[n].m_Val)
            /\ Decrement(heap, n) = GreatestNode(heap, mp_Root, LAMBDA v : v < heap[n].m_Val)
        /\ Traversal = Walk(heap, begin(heap, mp_Root))
        /\ Len(Traversal) = m_Size
        /\ StrictlyIncreasing(Traversal)
        /\ {Traversal[i] : i \in 1..Len(Traversal)} = SubtreeVals(heap, mp_Root)

\* C16 case: after an erase, ++ climbs more than one level from a node
\* without right child, -- climbs from a node without left child, and ++ at
\* the maximum gives end()
C16_Witness ==
    /\ Completed /\ Erased /\ m_Size >= 4
    /\ \E n \in TreeNodes : /\ heap[n].mp_Right = NIL
                            /\ Increment(heap, n) \notin {end, heap[n].mp_Parent}
    /\ \E n \in TreeNodes : /\ heap[n].mp_Left = NIL
                            /\ Decrement(heap, n) # end
    /\ Increment(heap, TreeMax(heap, mp_Root)) = end

\* C17: when the allocation of the node or the construction of its value
\* fails during the insert of a new key, the failure propagates and the tree
\* is as before the call: same root, links, colours and size, no partially
\* linked node, and the storage acquired for the node released.
C17_FailedInsertNoChange ==
    [][last'.op = "insert_throws" =>
            /\ UNCHANGED <<heap, live, mp_Root, m_Size, abs>>
            /\ fault' = "ok"
            /\ Holder(heap', mp_Root', last'.arg) = NIL
            /\ last'.arg \notin live']_vars

\* C17 case: an insert of a new key failed on a tree of at least three nodes
\* in which another key of the model is absent as well
C17_Witness ==
    /\ last.op = "insert_throws" /\ m_Size >= 3 /\ Cardinality(live) = m_Size
    /\ last.arg \notin abs
    /\ \E k \in Key : k \notin abs /\ k # last.arg

\* the live node under which the position vacated by an erase of x lies (NIL
\* when the vacated position is the root): x's parent when x has at most one
\* child; otherwise the successor itself when it is x's right child, else the
\* successor's parent
VacatedParent(h, x) ==
    IF h[x].mp_Left = NIL \/ h[x].mp_Right = NIL THEN h[x].mp_Parent
    ELSE IF h[TreeSuccessor(h, x)].mp_Parent = x THEN TreeSuccessor(h, x)
    ELSE h[TreeSuccessor(h, x)].mp_Parent

\* C18: in erase, whenever the spliced-out node was black and has no
\* replacement, the sentinel handed to the fix-up has as parent the live node
\* under which the vacated position lies, in each of the three structural
\* cases.
C18_SentinelParent ==
    [][(Destroyed(last') # NIL /\ UsesSentinel(SplicedOut(heap, mp_Root, Destroyed(last')))) =>
            /\ SentinelParent(SplicedOut(heap, mp_Root, Destroyed(last')))
                    = VacatedParent(heap, Destroyed(last'))
            /\ SentinelParent(SplicedOut(heap, mp_Root, Destroyed(last')))
                    \in (live \ {Destroyed(last')}) \cup {NIL}]_vars

\* C19: the sentinel used by erase is never linked into the permanent
\* structure: after any erase has returned, neither the root reference nor
\* the left, right or parent relation of any live node refers to it.
C19_SentinelNeverLinked ==
    (Completed /\ Erased) =>
        /\ mp_Root # SENT
        /\ \A n \in live : /\ heap[n].mp_Left # SENT
                           /\ heap[n].mp_Right # SENT
                           /\ heap[n].mp_Parent # SENT
        /\ SENT \notin DOMAIN heap

\* C19 case: an erase that ran the fix-up from the sentinel has returned and
\* left a tree of at least three nodes, one of them with a right child only
C19_Witness ==
    /\ Completed /\ Erased /\ last.sentinel
    /\ m_Size >= 3
    /\ \E n \in TreeNodes : heap[n].mp_Left = NIL /\ heap[n].mp_Right # NIL

\* C20: a.swap(b) exchanges the roots and sizes of the two trees: afterwards
\* a holds b's former elements and size and b holds a's, no node is created
\* or destroyed, and a second swap restores both trees.
C20_SwapExchanges ==
    [][last'.op = "swap" =>
            /\ mp_Root' = other.mp_Root /\ m_Size' = other.m_Size
            /\ other'.mp_Root = mp_Root /\ other'.m_Size = m_Size
            /\ InOrder(heap', mp_Root') = InOrder(heap, other.mp_Root)
            /\ InOrder(heap', other'.mp_Root) = InOrder(heap, mp_Root)
            /\ m_Size' = Len(InOrder(heap', mp_Root'))
            /\ other'.m_Size = Len(InOrder(heap', other'.mp_Root))
            /\ heap' = heap /\ live' = live
            /\ swap(TreeObject(mp_Root', m_Size'),
                    TreeObject(other'.mp_Root, other'.m_Size))
                 = [this |-> TreeObject(mp_Root, m_Size),
                    other |-> TreeObject(other.mp_Root, other.m_Size)]]_vars

\* C20 case: a swap has exchanged two non-empty trees of different sizes
C20_Witness ==
    /\ last.op = "swap"
    /\ mp_Root # NIL /\ other.mp_Root # NIL
    /\ m_Size >= 2 /\ other.m_Size >= 1 /\ m_Size # other.m_Size
    /\ Len(InOrder(heap, mp_Root)) = m_Size

\* the state of a freshly constructed tree on an allocator with nothing in use
FreshHeap == [n \in Node |-> FreshNode]

\* C21: clear() leaves size() 0, no root and begin() = end(), destroys every
\* node that was live exactly once, and inserts that follow behave as on a
\* freshly constructed tree.
C21_ClearResets ==
    [][last'.op = "clear" =>
            /\ m_Size' = 0 /\ mp_Root' = NIL
            /\ begin(heap', mp_Root') = end
            /\ \A i, j \in 1..Len(DestroyCalls(heap, mp_Root)) :
                    i # j => DestroyCalls(heap, mp_Root)[i] # DestroyCalls(heap, mp_Root)[j]
            /\ Len(DestroyCalls(heap, mp_Root)) = Cardinality(SubtreeNodes(heap, mp_Root))
            /\ live' = live \ SubtreeNodes(heap, mp_Root)
            /\ other.mp_Root = NIL =>
                    /\ live' = {} /\ heap' = FreshHeap
                    /\ \A v \in Key :
                            insert_impl(heap', mp_Root', live', m_Size', v)
                                = insert_impl(FreshHeap, NIL, {}, 0, v)]_vars

\* C21 case: a clear has destroyed a tree of at least four nodes
C21_Witness ==
    /\ last.op = "clear" /\ last.arg >= 4
    /\ m_Size = 0 /\ live = {}

\* every present child's parent pointer designates the node it hangs under
ChildParentBack(h, root) ==
    \A n \in SubtreeNodes(h, root) :
        /\ h[n].mp_Left # NIL => h[h[n].mp_Left].mp_Parent = n
        /\ h[n].mp_Right # NIL => h[h[n].mp_Right].mp_Parent = n

\* C22: IsRBTree() returns true exactly when the root is black, every path
\* from the root to an absent child has the same black count, no red node
\* has a red child and every present child's parent pointer points back to
\* its parent; it never modifies the tree.
C22_IsRBTreeExact ==
    [][last'.op = "IsRBTree" =>
            /\ (last'.ret = 1) = (/\ RootBlack
                                  /\ Cardinality(BlackCounts(heap, mp_Root)) = 1
                                  /\ NoRedRed
                                  /\ ChildParentBack(heap, mp_Root))
            /\ UNCHANGED <<heap, live, mp_Root, m_Size>>]_vars

\* C22 case: IsRBTree() has returned true on a tree of three nodes one of
\* which is red
C22_Witness ==
    /\ last.op = "IsRBTree" /\ last.ret = 1 /\ m_Size = 3
    /\ \E n \in TreeNodes : heap[n].m_Color = RBRed

\* C22 case: IsRBTree() has returned false on a tree whose colours are right
\* and in which one parent pointer is wrong
C22_WitnessFalse ==
    /\ last.op = "IsRBTree" /\ last.ret = 0
    /\ RootBlack /\ NoRedRed /\ Cardinality(BlackCounts(heap, mp_Root)) = 1
    /\ ~ChildParentBack(heap, mp_Root)


\* An erase that spliced out a red node ran no fix-up: the tree it leaves is
\* the tree the splice left and no node other than the spliced-out one has
\* changed colour.
RedSpliceFrame(h, root, x) ==
    /\ fault' = "ok"
    /\ mp_Root' = SplicedOut(h, root, x).t.root
    /\ \A n \in live' :
            /\ heap'[n] = SplicedOut(h, root, x).t.h[n]
            /\ n # SplicedOut(h, root, x).removed_node => heap'[n].m_Color = h[n].m_Color

\* an erase that splices a red node out of a tree that satisfies the
\* red-black invariants runs no fix-up and leaves a tree that satisfies them
RedSplicePreserves ==
    [][(Destroyed(last') # NIL /\ last'.spliced = RBRed) =>
            /\ RedSpliceFrame(heap, mp_Root, Destroyed(last'))
            /\ IsRBTree(heap, mp_Root) => IsRBTree(heap', mp_Root')]_vars

\* C28: when the node spliced out of its position by an erase (the erased
\* node, or its successor when the erased node has two children) was red,
\* no fix-up runs: no other node changes colour, no rotation is performed,
\* and all red-black invariants hold afterwards.
C28_RedSpliceNoFixup ==
    [][(Destroyed(last') # NIL /\ last'.spliced = RBRed) =>
            /\ RedSpliceFrame(heap, mp_Root, Destroyed(last'))
            /\ IsRBTree(heap', mp_Root')]_vars


\* the slot vacated by an erase of x is a left slot: x's own slot when x has
\* at most one child; otherwise the slot of the successor, the left slot of
\* its parent unless the successor is x's right child
VacatedLeft(h, x) ==
    IF h[x].mp_Left = NIL \/ h[x].mp_Right = NIL
    THEN h[x].mp_Parent # NIL /\ h[h[x].mp_Parent].mp_Left = x
    ELSE h[TreeSuccessor(h, x)].mp_Parent # x

\* the iterations of the fix-up of an erase of x, when an access to the
\* destroyed node reads its old contents
Examined(h, root, x) == EraseFix(SplicedOut(h, root, x), x, "stale").examined

\* the brother examined in iteration it is the child of p on the side
\* opposite the double black, p being the node the double black hangs under
OppositeOfChild(it) ==
    \/ it.x = it.h[it.px].mp_Left /\ it.bx = it.h[it.px].mp_Right
    \/ it.x = it.h[it.px].mp_Right /\ it.bx = it.h[it.px].mp_Left

\* the same for the iteration that starts from the sentinel in an erase of x
\* from the tree h: p is the live node above the vacated slot
OppositeOfVacated(it, h, x) ==
    /\ VacatedParent(h, x) # NIL
    /\ it.px = VacatedParent(h, x)
    /\ it.bx = IF VacatedLeft(h, x) THEN it.h[it.px].mp_Right ELSE it.h[it.px].mp_Left

\* every iteration of the fix-up that starts from a live node of the tree
\* (and not from the sentinel or from the destroyed node, which the
\* sentinel's parent pointer leads to) examines the brother on the side
\* opposite the double black
LiveNodeBrotherOpposite ==
    [][Destroyed(last') # NIL =>
            \A i \in 1..Len(Examined(heap, mp_Root, Destroyed(last'))) :
                Examined(heap, mp_Root, Destroyed(last'))[i].x \notin {SENT, Destroyed(last')}
                    => OppositeOfChild(Examined(heap, mp_Root, Destroyed(last'))[i])]_vars

\* C29: in every iteration of the erase fix-up the sibling examined is the
\* child of p on the side opposite the deficient position: p's right child
\* when the position is p's left slot and p's left child when it is p's
\* right slot, also in the iterations that start from the sentinel.
C29_SiblingOpposite ==
    [][Destroyed(last') # NIL =>
            \A i \in 1..Len(Examined(heap, mp_Root, Destroyed(last'))) :
                IF Examined(heap, mp_Root, Destroyed(last'))[i].x = SENT
                THEN OppositeOfVacated(Examined(heap, mp_Root, Destroyed(last'))[i],
                                       heap, Destroyed(last'))
                ELSE OppositeOfChild(Examined(heap, mp_Root, Destroyed(last'))[i])]_vars


\* the passes of the fix-up of an erase of x that went through the
\* red-brother case, when an access to the destroyed node reads its old
\* contents
Resumed(h, root, x) == EraseFix(SplicedOut(h, root, x), x, "stale").resumed

\* x's side in pass it of the fix-up of an erase of z from the tree h: the
\* slot x hangs in, and for the sentinel the vacated slot
OnLeft(it, h, z) ==
    IF it.x = SENT THEN VacatedLeft(h, z) ELSE it.x = it.h[it.px].mp_Left

\* after the red-brother case of pass it, the brother in use is p's new child
\* on the side opposite x and the nephews are that node's children (absent
\* when it is absent), sameX the one on x's side
SiblingRecomputed(it, left) ==
    /\ it.bx = IF left THEN it.h[it.px].mp_Right ELSE it.h[it.px].mp_Left
    /\ it.sameX = IF it.bx = NIL THEN NIL
                  ELSE IF left THEN it.h[it.bx].mp_Left ELSE it.h[it.bx].mp_Right
    /\ it.oppoX = IF it.bx = NIL THEN NIL
                  ELSE IF left THEN it.h[it.bx].mp_Right ELSE it.h[it.bx].mp_Left

\* C30: in the erase fix-up, after the red-sibling case has rotated p toward
\* x's side and recoloured p red and the old sibling black, the sibling used
\* by the following cases is p's new child on the side opposite x (p's left
\* child when x is on the right) and the nephews tested by those cases are
\* the children of that new sibling.
C30_SiblingRecomputed ==
    [][Destroyed(last') # NIL =>
            \A i \in 1..Len(Resumed(heap, mp_Root, Destroyed(last'))) :
                SiblingRecomputed(Resumed(heap, mp_Root, Destroyed(last'))[i],
                                  OnLeft(Resumed(heap, mp_Root, Destroyed(last'))[i],
                                         heap, Destroyed(last')))]_vars


\* the nodes of the map whose value has the key k
Entries(h, root, k) == {n \in SubtreeNodes(h, root) : first_key(h[n].m_Val) = k}

\* C23: map::at(key) on a key that is not in the map fails with the
\* key-not-found error and leaves the map unchanged (nothing is inserted, the
\* size is the same); on a key that is in the map it returns the mapped value
\* of an entry with that key.
C23_AtThrowsOrReturns ==
    [][last'.op \in {"at", "at_out_of_range"} =>
            /\ UNCHANGED <<heap, live, mp_Root, m_Size>>
            /\ (last'.op = "at_out_of_range") = (Entries(heap, mp_Root, last'.arg) = {})
            /\ last'.op = "at" =>
                    \E n \in Entries(heap, mp_Root, last'.arg) :
                        last'.ret = second(heap[n].m_Val)]_vars

\* C23 case: at() has failed for a key absent from a map of at least two
\* entries that holds a smaller and a greater key
C23_Witness ==
    /\ last.op = "at_out_of_range" /\ m_Size >= 2
    /\ \E n \in TreeNodes : first_key(heap[n].m_Val) < last.arg
    /\ \E n \in TreeNodes : first_key(heap[n].m_Val) > last.arg

\* C23 case: at() has returned the mapped value of an entry that is not the
\* root of the map
C23_WitnessPresent ==
    /\ last.op = "at" /\ last.node # mp_Root /\ last.ret = 1

\* C24: insertion decides by the comparator applied to the extracted keys
\* only: in a map, inserting a value whose key equals the key of an entry and
\* whose mapped part differs returns that entry with false and leaves the
\* stored entry and the map untouched.
C24_InsertComparesKeys ==
    [][(/\ last'.op = "insert"
        /\ \E n \in Entries(heap, mp_Root, first_key(last'.arg)) :
                second(heap[n].m_Val) # second(last'.arg)) =>
            /\ last'.ret = 0
            /\ last'.node \in Entries(heap, mp_Root, first_key(last'.arg))
            /\ UNCHANGED <<heap, live, mp_Root, m_Size>>]_vars


\* the elements of the sequence q
Range(q) == {q[i] : i \in 1..Len(q)}

\* C26: for the unbalanced bst, after any sequence of inserts and erases by
\* key the in-order traversal is strictly increasing and holds exactly the
\* keys inserted and not erased, size() is their number, and the parent
\* relation is the inverse of the child relation.
C26_BstInvariants ==
    Completed =>
        /\ StrictlyIncreasing(InOrder(heap, mp_Root))
        /\ Range(InOrder(heap, mp_Root)) = abs
        /\ Traversal = InOrder(heap, mp_Root)
        /\ m_Size = Cardinality(abs)
        /\ live = TreeNodes
        /\ ParentInverse
        /\ mp_Root # NIL => heap[mp_Root].mp_Parent = NIL

\* C26 case: the erase of a node with two children whose successor was not
\* its right child has returned and left at least three nodes
C26_Witness ==
    /\ Completed /\ last.op = "erase" /\ last.case = "successor_below"
    /\ m_Size >= 3

\* C26 cases: the erase of a leaf, of a node with one child and of a node
\* whose successor was its right child have returned
C26_WitnessLeaf == Completed /\ last.op = "erase" /\ last.case = "leaf" /\ m_Size >= 2
C26_WitnessOneChild ==
    Completed /\ last.op = "erase" /\ last.case = "one_child" /\ m_Size >= 2
C26_WitnessChild ==
    Completed /\ last.op = "erase" /\ last.case = "successor_child" /\ m_Size >= 3


\* the true height of the subtree rooted at n
RECURSIVE Height(_, _)
Height(h, n) ==
    IF n = NIL THEN 0 ELSE 1 + Max(Height(h, h[n].mp_Left), Height(h, h[n].mp_Right))

\* every node's m_Height is the true height of its subtree
HeightsExact == Completed => \A n \in TreeNodes : heap[n].m_Height = Height(heap, n)

\* C25: after every completed insert or erase on an avl_tree, the true
\* heights of the two subtrees of every node differ by at most one, and the
\* tree is a binary search tree over the surviving keys.
C25_AvlBalanced ==
    Completed =>
        /\ \A n \in TreeNodes :
                /\ Height(heap, heap[n].mp_Left) - Height(heap, heap[n].mp_Right) <= 1
                /\ Height(heap, heap[n].mp_Right) - Height(heap, heap[n].mp_Left) <= 1
        /\ BSTOrder
        /\ SubtreeVals(heap, mp_Root) = abs
        /\ live = TreeNodes

\* C25 case: an erase after which rebalance_upward rotated an unbalanced
\* node has returned and left at least four nodes
C25_Witness ==
    /\ Completed /\ last.op = "erase" /\ last.ret = 1 /\ last.rotations >= 1
    /\ m_Size >= 4


\* the values held by the links of the sequence q
ValuesOf(h, q) == [i \in 1..Len(q) |-> h[q[i]].m_Val]

Reverse(q) == [i \in 1..Len(q) |-> q[Len(q) + 1 - i]]

\* C27: for mstl::list, after any sequence of push_back, push_front,
\* insert(pos, v), erase(pos), pop_front and pop_back, the forward traversal
\* from begin() to end() is the plain sequence the same calls produce (insert
\* puts v immediately before pos and returns its position, erase returns the
\* following position), the backward traversal is its reverse and size() is
\* its length.
C27_ListRefinesSequence ==
    /\ ValuesOf(heap, Links(heap)) = abs
    /\ ValuesOf(heap, Backward(heap, heap[list_end].prev, MaxLinks + 1)) = Reverse(abs)
    /\ m_Size = Len(abs)
    /\ live = {Links(heap)[i] : i \in 1..Len(Links(heap))}
    /\ last.op \in {"insert", "push_back", "push_front"} =>
            /\ Links(heap)[last.index] = last.ret
            /\ heap[last.ret].m_Val = last.arg
            /\ heap[last.ret].succ = last.pos
    /\ last.op \in {"erase", "pop_front", "pop_back"} =>
            last.ret = IF last.index <= Len(Links(heap)) THEN Links(heap)[last.index]
                       ELSE list_end

\* C27 case: erase(pos) has removed a middle element of a list of three and
\* the two elements left differ
C27_Witness ==
    /\ last.op = "erase" /\ last.index = 2 /\ Len(abs) = 2
    /\ abs[1] # abs[2]

\* C27 case: insert(pos, v) has put a value between two others
C27_WitnessInsert ==
    /\ last.op = "insert" /\ last.index = 2 /\ Len(abs) = 3
    /\ abs[2] # abs[1]


\* the terminal step of the fix-up of an erase of x (none when the fix-up
\* ends otherwise), when an access to the destroyed node reads its old
\* contents
Terminal(h, root, x) == EraseFix(SplicedOut(h, root, x), x, "stale").terminal

\* the node that has taken p's place in the terminal step it
InPlaceOf(it) == it.h[it.px].mp_Parent

\* the terminal step it leaves the node in p's place with p's colour, p as
\* one child and both children black
TerminalRecoloured(it) ==
    /\ InPlaceOf(it) # NIL
    /\ it.px \in {it.h[InPlaceOf(it)].mp_Left, it.h[InPlaceOf(it)].mp_Right}
    /\ it.h[InPlaceOf(it)].m_Color = it.colour
    /\ color_of(it.h, it.h[InPlaceOf(it)].mp_Left) = RBBk
    /\ color_of(it.h, it.h[InPlaceOf(it)].mp_Right) = RBBk

\* C31: in erase fix-up, when at least one nephew is red, the terminal step
\* leaves the node that takes p's place with p's original colour and with
\* both of its children black (p and the far nephew), also when the
\* near-nephew rotation ran first and the far nephew is the former sibling.
C31_TerminalStep ==
    [][Destroyed(last') # NIL =>
            \A i \in 1..Len(Terminal(heap, mp_Root, Destroyed(last'))) :
                TerminalRecoloured(Terminal(heap, mp_Root, Destroyed(last'))[i])]_vars


\* the node the fix-up of an erase of x ended on, when an access to the
\* destroyed node reads its old contents
EndedOn(h, root, x) == EraseFix(SplicedOut(h, root, x), x, "stale").ended

\* the number of parent links from n up to a node without parent, counted up
\* to fuel
RECURSIVE Depth(_, _, _)
Depth(h, n, fuel) ==
    IF n = NIL \/ fuel = 0 THEN 0 ELSE 1 + Depth(h, h[n].mp_Parent, fuel - 1)

\* every iteration but the last hands the double black to its parent, one
\* link closer to the root
Climbs(ex) ==
    \A i \in 1..(Len(ex) - 1) :
        /\ ex[i + 1].x = ex[i].px
        /\ Depth(ex[i + 1].h, ex[i + 1].x, MaxKey + 2) < Depth(ex[i].h, ex[i].x, MaxKey + 2)

\* the loop ended once, on a node that is black afterwards
EndsBlack(en) ==
    /\ Len(en) = 1
    /\ en[1].x # NIL => en[1].h[en[1].x].m_Color = RBBk

\* when an access to the destroyed node reads its old contents, the fix-up
\* of every erase ends, each of its iterations but the last moves the double
\* black one link up, and the node it ends on is black
FixupEndsWhenStale ==
    [][(Destroyed(last') # NIL /\ last'.spliced = RBBk
        /\ EraseFix(SplicedOut(heap, mp_Root, Destroyed(last')), Destroyed(last'), "stale").fault = "ok") =>
            /\ Climbs(Examined(heap, mp_Root, Destroyed(last')))
            /\ EndsBlack(EndedOn(heap, mp_Root, Destroyed(last')))]_vars

\* C32: every erase call on a reachable tree terminates: the erase fix-up
\* loop ends once x becomes the root or is recoloured black, each iteration
\* either stops or moves x strictly closer to the root, and the node on which
\* the loop ends is coloured black.
C32_EraseTerminates ==
    [][Destroyed(last') # NIL =>
            /\ fault' = "ok"
            /\ Climbs(Examined(heap, mp_Root, Destroyed(last')))
            /\ last'.spliced = RBBk => EndsBlack(EndedOn(heap, mp_Root, Destroyed(last')))]_vars


\* the node of the tree that holds the least value greater than x's
InOrderSuccessor(h, root, x) == LeastNode(h, root, LAMBDA v : v > h[x].m_Val)

\* in the tree sp that the structural part of an erase of x from (h, root)
\* leaves, s stands where x stood: under x's former parent (or at the root),
\* over x's former left subtree and over x's former right subtree without s,
\* in x's former colour
TakesPlace(sp, h, root, x, s) ==
    /\ sp.removed_node = s
    /\ sp.t.h[s].mp_Parent = h[x].mp_Parent
    /\ IF h[x].mp_Parent = NIL THEN sp.t.root = s
       ELSE /\ sp.t.root = root
            /\ h[h[x].mp_Parent].mp_Left = x => sp.t.h[h[x].mp_Parent].mp_Left = s
            /\ h[h[x].mp_Parent].mp_Right = x => sp.t.h[h[x].mp_Parent].mp_Right = s
    /\ sp.t.h[s].mp_Left = h[x].mp_Left
    /\ sp.t.h[h[x].mp_Left].mp_Parent = s
    /\ SubtreeNodes(sp.t.h, sp.t.h[s].mp_Left) = SubtreeNodes(h, h[x].mp_Left)
    /\ InOrder(sp.t.h, sp.t.h[s].mp_Left) = InOrder(h, h[x].mp_Left)
    /\ SubtreeNodes(sp.t.h, sp.t.h[s].mp_Right) = SubtreeNodes(h, h[x].mp_Right) \ {s}
    /\ InOrder(sp.t.h, sp.t.h[s].mp_Right) = Tail(InOrder(h, h[x].mp_Right))
    /\ sp.t.h[s].mp_Right # NIL => sp.t.h[sp.t.h[s].mp_Right].mp_Parent = s
    /\ sp.t.h[s].m_Color = h[x].m_Color

\* C33: when erase removes a node with two children, its in-order successor
\* takes the removed node's position: it gets the removed node's former
\* parent (or becomes the root), the removed node's former left subtree as
\* its left subtree, the removed node's former right subtree without the
\* successor as its right subtree, and the removed node's former colour.
C33_SuccessorTakesPlace ==
    [][(Destroyed(last') # NIL /\ heap[Destroyed(last')].mp_Left # NIL
        /\ heap[Destroyed(last')].mp_Right # NIL) =>
            TakesPlace(SplicedOut(heap, mp_Root, Destroyed(last')), heap, mp_Root,
                       Destroyed(last'),
                       InOrderSuccessor(heap, mp_Root, Destroyed(last')))]_vars

\* C33 case: an erase has removed a node with two children whose successor
\* lay below its right child, and the tree it leaves has at least four nodes
C33_Witness ==
    /\ Completed /\ last.op = "erase" /\ last.case = "successor_below"
    /\ m_Size >= 4

\* C33 case: the successor was the removed node's right child
C33_WitnessChild ==
    /\ Completed /\ last.op = "erase_it" /\ last.case = "successor_child"
    /\ m_Size >= 3


\* C34: every rotation invoked by insert fix-up or erase fix-up, in any
\* reachable state, is applied to a present pivot that has the child the
\* rotation needs (a left rotation's pivot has a right child, a right
\* rotation's pivot has a left child): no call ends in the dereference of an
\* absent node, whether an access to the destroyed node reads its old
\* contents or not.
C34_RotationsHavePivot ==
    [][/\ fault' # "rotate"
       /\ Destroyed(last') # NIL =>
            EraseFix(SplicedOut(heap, mp_Root, Destroyed(last')), Destroyed(last'),
                     "stale").fault # "rotate"]_vars


\* C35: during erase, no node is read, compared by identity, recoloured or
\* otherwise written after it has been destroyed: every pointer that
\* erase_node and erase_fixup dereference after the destruction of the erased
\* node refers to a live node or to the sentinel.
C35_NoUseAfterDestroy ==
    [][Destroyed(last') # NIL =>
            /\ fault' # "uaf"
            /\ ~EraseFix(SplicedOut(heap, mp_Root, Destroyed(last')), Destroyed(last'),
                         "stale").uaf]_vars


\* C36: after every completed insert or erase on an rb_tree, the root
\* reference is absent exactly when the tree has no nodes and otherwise
\* designates the unique live node whose parent is absent, from which every
\* live node is reachable: the root reference follows every rotation and
\* every subtree replacement that changes the topmost node.
C36_RootReference ==
    Completed =>
        /\ mp_Root = NIL <=> live = {}
        /\ mp_Root # NIL =>
            /\ mp_Root \in live
            /\ heap[mp_Root].mp_Parent = NIL
            /\ \A n \in live : heap[n].mp_Parent = NIL => n = mp_Root
        /\ SubtreeNodes(heap, mp_Root) = live

\* C36 case: an erase has removed the root, a node with two children, and
\* its successor is the root now (no rotation followed)
C36_Witness ==
    /\ Completed /\ last.op = "erase" /\ last.rotations = 0
    /\ last.case \in {"successor_child", "successor_below"}
    /\ m_Size >= 3
    /\ heap[mp_Root].m_Val = NextKey(heap, mp_Root, last.arg)

\* C36 case: the node just inserted as a leaf is the root of a tree of at
\* least three nodes: two rotations have lifted it over the former root
C36_WitnessInsert ==
    /\ Completed /\ last.op = "insert" /\ last.ret = 1 /\ last.rotations = 2
    /\ last.node = mp_Root /\ m_Size >= 3

\* C36 case: an erase whose fix-up rotated has returned and the root is a
\* node other than the one that held the least key greater than the erased
\* one
C36_WitnessRotated ==
    /\ Completed /\ Erased /\ last.rotations >= 1 /\ m_Size >= 3
    /\ heap[mp_Root].mp_Left # NIL /\ heap[mp_Root].mp_Right # NIL


\* C37: advancing or retreating the end iterator leaves it at end, for any
\* tree: operator-- applied to end() yields end() (it does not move to the
\* maximum element) and operator++ applied to end() yields end().
C37_EndStaysEnd ==
    /\ Decrement(heap, end) = end
    /\ Increment(heap, end) = end
    /\ mp_Root # NIL => Decrement(heap, end) # TreeMax(heap, mp_Root)

\* C37 case: a tree of at least three nodes left by an erase, whose maximum
\* is not its root
C37_Witness ==
    /\ Completed /\ Erased /\ m_Size >= 3
    /\ TreeMax(heap, mp_Root) \notin {end, mp_Root}
    /\ Increment(heap, TreeMax(heap, mp_Root)) = end

\* ------------------------------------------------------------------ C38
\* C38: for two bst trees a and b, a == b is true exactly when they have the
\* same size and the same in-order sequence of elements.
C38_EqualIsSequenceEquality ==
    last.op = "equal" =>
        ((last.ret = 1) <=> (/\ m_Size = other.m_Size
                             /\ InOrder(heap, mp_Root) = InOrder(heap, other.mp_Root)))

\* What the comparison decides on: the two sizes and the two greatest
\* elements, the const range [begin(), end()) holding the maximum alone.
C38_EqualComparesMaxima ==
    last.op = "equal" =>
        ((last.ret = 1) <=>
            (/\ m_Size = other.m_Size
             /\ (m_Size # 0 =>
                    heap[TreeMax(heap, mp_Root)].m_Val
                        = heap[TreeMax(heap, other.mp_Root)].m_Val)))

\* two trees of one size and one maximum, different below it, compared equal
C38_Differ ==
    /\ last.op = "equal"
    /\ last.ret = 1
    /\ InOrder(heap, mp_Root) # InOrder(heap, other.mp_Root)

\* ------------------------------------------------------------------ C39
\* C39: vector::insert(p, val) with p at index i of a vector of size n
\* yields a vector of size n+1 whose element i is val, whose elements before
\* i are unchanged and whose former elements i..n-1 follow in the same order
\* at indices i+1..n; the returned iterator refers to index i, also when the
\* insertion moves the elements to a larger block.
C39_InsertShiftsTail ==
    last.op = "insert" =>
        /\ fault = "ok"
        /\ Contents(heap) = InsertAt(last.before, last.index + 1, last.arg)
        /\ last.ret = last.index

\* What every insertion that returns does keep: the size grows by one, val
\* is at index i, and the returned iterator refers to index i, with or
\* without a move to a larger block.
C39_InsertPlacesValue ==
    (last.op = "insert" /\ fault = "ok") =>
        /\ heap.sz = Len(last.before) + 1
        /\ heap.elem[last.index] = last.arg
        /\ last.ret = last.index
        /\ heap.sz <= heap.space

\* The elements before the last one are where they were only when the
\* insertion is at end(), and the process gets that far only when the
\* library copies nothing for a range whose end precedes its start.
C39_InsertAtEnd ==
    (last.op = "insert" /\ fault = "ok" /\ last.index = Len(last.before)) =>
        Contents(heap) = last.before \o <<last.arg>>

\* an insertion before the last element that returned and lost that element
C39_LostTail ==
    /\ last.op = "insert"
    /\ fault = "ok"
    /\ last.index < Len(last.before)
    /\ last.moved
    /\ heap.elem[heap.sz - 1] = Raw

====
